---- MODULE Spec2Model ----
(***************************************************************************)
(* Model of wallet-guardian/src/graph_orchestrator.py: the computation     *)
(* graph (ComputationGraph, WalletAnalysisGraphBuilder,                    *)
(* MultiAgentOrchestrator.analyze_wallet) and the shared data cache with   *)
(* its fetcher (WalletDataCache, UnifiedDataFetcher).                      *)
(*                                                                         *)
(* Spec       : a graph is built with add_node / build_graph and executed. *)
(* SpecFetch  : concurrent callers of the fetcher.                         *)
(* SpecCache  : callers use the cache and the fetcher while time passes.   *)
(* SpecScore  : the scoring functions of common.py and their consumers,    *)
(*              on bounded metrics.                                        *)
(* SpecWallet : the analysis functions on bounded balances and transfers.  *)
(* SpecLock   : the fetcher with an upstream call that suspends its task   *)
(*              while the per-key lock is held.                            *)
(* SpecBuild  : add_node and get_parallel_batches interleaved.             *)
(* SpecFresh  : fetcher calls for one address while time passes, every     *)
(*              upstream call answered.                                    *)
(* SpecClients: fetchers made with different NeoClients on the one cache.  *)
(* SpecLockLive, SpecExecLive : SpecLock and Spec with the fairness of the *)
(*              event loop (upstream calls and compute functions end).     *)
(***************************************************************************)
EXTENDS Integers, Sequences, FiniteSets, TLC

VARIABLES
    nodes,        \* ComputationGraph.nodes: node id -> ComputationNode
    nodeOrder,    \* insertion order of the nodes dict
    topoCache,    \* ComputationGraph._topo_order: [set, val], set = FALSE for None
    hashOrder,    \* iteration order of Python sets of node ids
    results,      \* ComputationGraph.results: dict node id -> ComputationResult
    phase,        \* "build", "exec", "returned", "raised"
    mode,         \* "graph" (execute called directly) or "analyze" (analyze_wallet)
    batches,      \* the batches execute() iterates over
    batchIdx,     \* index of the batch being gathered
    taskRes,      \* what each finished _execute_node task of the batch gave
                  \* gather (exc, res) and the dep_results it worked on (deps)
    invoked,      \* history: number of compute_fn invocations per node
    ret,          \* value returned by analyze_wallet (kind "none" before)
    cache,        \* WalletDataCache._cache: dict key -> [data, timestamp]
    now,          \* time.time()
    upCalls,      \* history: upstream (NeoClient) calls made per dataset key
    callers,      \* the calls of the fetcher made so far, one task each
    lastGet,      \* history: what the direct WalletDataCache.get just made
                  \* returned, and whether it deleted the entry
    metricsIn,    \* arguments of a scoring call: concentration,
                  \* stablecoin_ratio, counterparty_count, suspicious_patterns
    walletIn,     \* the balances and transfers an analysis is run on
    out           \* what the scoring or analysis call just made returned

graphVars == <<nodes, nodeOrder, topoCache, hashOrder, results, phase, mode,
               batches, batchIdx, taskRes, invoked, ret>>
cacheVars == <<cache, now, upCalls, callers, lastGet>>
scoreVars == <<metricsIn, walletIn, out>>
vars == <<nodes, nodeOrder, topoCache, hashOrder, results, phase, mode,
          batches, batchIdx, taskRes, invoked, ret,
          cache, now, upCalls, callers, lastGet,
          metricsIn, walletIn, out>>

NoneVal == "None"

(***************************************************************************)
(* Node identifiers.  Generic graphs are built over GenericSeq; the        *)
(* canonical wallet-analysis graph uses the ids of build_graph.            *)
(***************************************************************************)
GenericSeq == <<"a", "b", "c">>
CanonSeq == <<"fetch_data", "concentration", "stablecoin_ratio",
              "counterparties", "suspicious_patterns", "risk_score",
              "final_report">>

SeqRange(s) == {s[i] : i \in 1..Len(s)}
GenericIds == SeqRange(GenericSeq)
CanonIds == SeqRange(CanonSeq)
Ids == GenericIds \cup CanonIds

\* Largest number of dependencies a generic node is given.
MaxDeps == 2

Reverse(s) == [i \in 1..Len(s) |-> s[Len(s) + 1 - i]]

Perms(S) ==
    {p \in [1..Cardinality(S) -> S] : \A x \in S : \E i \in DOMAIN p : p[i] = x}

\* The set-iteration orders considered: every order of the generic ids, and
\* the canonical ids in both directions.
HashOrders ==
    {p \o CanonSeq : p \in Perms(GenericIds)}
        \cup {Reverse(CanonSeq) \o p : p \in Perms(GenericIds)}

\* Iterating a Python set of ids: its elements in hash order.
SetIter(S) == SelectSeq(hashOrder, LAMBDA x : x \in S)

\* NodeState
PENDING == "PENDING"
RUNNING == "RUNNING"
COMPLETED == "COMPLETED"
FAILED == "FAILED"
SKIPPED == "SKIPPED"

NoErr == [msg |-> "None", dep |-> NoneVal]
ExcErr == [msg |-> "exception", dep |-> NoneVal]
DepErr(d) == [msg |-> "Dependency failed", dep |-> d]

\* ComputationResult
ComputationResult(id, st, data, err, used) ==
    [node_id |-> id, state |-> st, data |-> data, error |-> err,
     dependencies_used |-> used]

\* ComputationNode
ComputationNode(deps, required, fn) ==
    [dependencies |-> deps, required |-> required, fn |-> fn,
     state |-> PENDING, result |-> NoneVal]

NodeSet == DOMAIN nodes

\* an empty dict
EmptyDict == [x \in {} |-> NoneVal]

\* d[k] = v on a dict
DictSet(d, k, v) == [x \in DOMAIN d \cup {k} |-> IF x = k THEN v ELSE d[x]]

(***************************************************************************)
(* ComputationGraph._validate_dag: depth-first search with a recursion     *)
(* stack.  The search state is [cyc, visited, rec_stack].                  *)
(***************************************************************************)
RECURSIVE has_cycle(_, _)
RECURSIVE has_cycle_deps(_, _)

\* the for loop of has_cycle over the dependencies ds still to look at
has_cycle_deps(ds, st) ==
    IF ds = <<>> THEN st
    ELSE LET dep == Head(ds) IN
         IF dep \notin NodeSet THEN has_cycle_deps(Tail(ds), st)
         ELSE IF dep \notin st.visited
              THEN LET r == has_cycle(dep, st) IN
                   IF r.cyc THEN r ELSE has_cycle_deps(Tail(ds), r)
         ELSE IF dep \in st.rec_stack
              THEN [st EXCEPT !.cyc = TRUE]
         ELSE has_cycle_deps(Tail(ds), st)

has_cycle(node_id, st) ==
    LET st1 == [cyc |-> FALSE,
                visited |-> st.visited \cup {node_id},
                rec_stack |-> st.rec_stack \cup {node_id}]
        r == has_cycle_deps(SetIter(nodes[node_id].dependencies), st1)
    IN  IF r.cyc THEN r
        ELSE [r EXCEPT !.rec_stack = r.rec_stack \ {node_id}]

RECURSIVE validate_loop(_, _)
validate_loop(ns, st) ==
    IF ns = <<>> THEN TRUE
    ELSE IF Head(ns) \notin st.visited
         THEN LET r == has_cycle(Head(ns), st) IN
              IF r.cyc THEN FALSE ELSE validate_loop(Tail(ns), r)
    ELSE validate_loop(Tail(ns), st)

_validate_dag ==
    validate_loop(nodeOrder, [cyc |-> FALSE, visited |-> {}, rec_stack |-> {}])

(***************************************************************************)
(* ComputationGraph._topological_sort: the cached order if there is one,   *)
(* else ValueError for a graph with a cycle, else the DFS post-order.      *)
(* The result is [ok, val]; ok = FALSE stands for the raised ValueError.   *)
(***************************************************************************)
RECURSIVE visit(_, _)
RECURSIVE visit_deps(_, _)

visit_deps(ds, st) ==
    IF ds = <<>> THEN st ELSE visit_deps(Tail(ds), visit(Head(ds), st))

visit(node_id, st) ==
    IF node_id \in st.visited THEN st
    ELSE LET st1 == [st EXCEPT !.visited = st.visited \cup {node_id}] IN
         IF node_id \in NodeSet
         THEN LET r == visit_deps(SetIter(nodes[node_id].dependencies), st1)
              IN  [r EXCEPT !.order = Append(r.order, node_id)]
         ELSE st1

\* the nodes in insertion order, without the depth-first search
dfs_order_insertion == nodeOrder

dfs_order == visit_deps(nodeOrder, [visited |-> {}, order |-> <<>>]).order

_topological_sort ==
    IF topoCache.set THEN [ok |-> TRUE, val |-> topoCache.val]
    ELSE IF ~_validate_dag THEN [ok |-> FALSE, val |-> <<>>]
    ELSE [ok |-> TRUE, val |-> dfs_order]

(***************************************************************************)
(* ComputationGraph.get_parallel_batches: [ok, val] as above; ok = FALSE   *)
(* is the ValueError of _topological_sort or "Unable to resolve            *)
(* dependencies".                                                          *)
(***************************************************************************)
\* stops at a batch that cannot be filled instead of raising
RECURSIVE batch_loop_stop(_, _, _)
batch_loop_stop(remaining, completed, acc) ==
    IF remaining = {} THEN [ok |-> TRUE, val |-> acc]
    ELSE LET batch == SelectSeq(SetIter(remaining),
                        LAMBDA n : nodes[n].dependencies \subseteq completed)
         IN  IF batch = <<>> THEN [ok |-> TRUE, val |-> acc]
             ELSE batch_loop_stop(remaining \ SeqRange(batch),
                                  completed \cup SeqRange(batch),
                                  Append(acc, batch))

\* puts every remaining node in one batch, whatever it depends on
batch_loop_flat(remaining, completed, acc) ==
    IF remaining = {} THEN [ok |-> TRUE, val |-> acc]
    ELSE [ok |-> TRUE, val |-> Append(acc, SetIter(remaining))]

\* takes one eligible node per batch and defers the others
RECURSIVE batch_loop_single(_, _, _)
batch_loop_single(remaining, completed, acc) ==
    IF remaining = {} THEN [ok |-> TRUE, val |-> acc]
    ELSE LET eligible == SelectSeq(SetIter(remaining),
                           LAMBDA n : nodes[n].dependencies \subseteq completed)
         IN  IF eligible = <<>> THEN [ok |-> FALSE, val |-> acc]
             ELSE batch_loop_single(remaining \ {Head(eligible)},
                                    completed \cup {Head(eligible)},
                                    Append(acc, <<Head(eligible)>>))

RECURSIVE batch_loop(_, _, _)
batch_loop(remaining, completed, acc) ==
    IF remaining = {} THEN [ok |-> TRUE, val |-> acc]
    ELSE LET batch == SelectSeq(SetIter(remaining),
                        LAMBDA n : nodes[n].dependencies \subseteq completed)
         IN  IF batch = <<>> THEN [ok |-> FALSE, val |-> acc]
             ELSE batch_loop(remaining \ SeqRange(batch),
                             completed \cup SeqRange(batch),
                             Append(acc, batch))

\* an invalid graph gives no batches instead of the ValueError
get_parallel_batches_swallow ==
    LET topo == _topological_sort IN
    IF ~topo.ok THEN [ok |-> TRUE, val |-> <<>>]
    ELSE batch_loop(SeqRange(topo.val), {}, <<>>)

get_parallel_batches ==
    LET topo == _topological_sort IN
    IF ~topo.ok THEN [ok |-> FALSE, val |-> <<>>]
    ELSE batch_loop(SeqRange(topo.val), {}, <<>>)

(***************************************************************************)
(* ComputationGraph._execute_node.  raises says whether compute_fn raises  *)
(* when it is called.                                                      *)
(***************************************************************************)
\* skips on any failed dependency, required or not
SkipCauses_anyFailed(n) ==
    SelectSeq(SetIter(nodes[n].dependencies),
              LAMBDA d : d \in DOMAIN results /\ results[d].state = FAILED)

\* looks at the first dependency only
SkipCauses_firstOnly(n) ==
    SelectSeq(IF nodes[n].dependencies = {} THEN << >>
              ELSE << Head(SetIter(nodes[n].dependencies)) >>,
              LAMBDA d : /\ d \in DOMAIN results
                         /\ results[d].state = FAILED
                         /\ nodes[d].required)

\* the dependencies, in iteration order, that make _execute_node skip
SkipCauses(n) ==
    SelectSeq(SetIter(nodes[n].dependencies),
              LAMBDA d : /\ d \in DOMAIN results
                         /\ results[d].state = FAILED
                         /\ nodes[d].required)

_execute_node(n, raises) ==
    IF SkipCauses(n) # <<>>
    THEN ComputationResult(n, SKIPPED, NoneVal, DepErr(Head(SkipCauses(n))), {})
    ELSE IF raises
         THEN ComputationResult(n, FAILED, NoneVal, ExcErr, {})
         ELSE ComputationResult(n, COMPLETED, "data", NoErr,
                                nodes[n].dependencies)

\* self.results.get(dep_id) of a dependency without a result
NoResult == ComputationResult(NoneVal, NoneVal, NoneVal, NoErr, {})

\* hands the function no result at all
dep_results_none(n) == [d \in nodes[n].dependencies |-> NoResult]

\* dep_results of _execute_node: the recorded result of each declared
\* dependency, as compute_fn receives it
dep_results(n) ==
    [d \in nodes[n].dependencies |->
        IF d \in DOMAIN results THEN results[d] ELSE NoResult]

\* compute_fn is called exactly when _execute_node does not skip
Invokes(n) == SkipCauses(n) = <<>>

\* A closure of build_graph reads .data of each of its dependencies' results
\* and subscripts or measures it: it raises when a dependency has no result
\* or a result without data.
ReadsNone(n) ==
    \E d \in nodes[n].dependencies :
        d \notin DOMAIN results \/ results[d].data = NoneVal

\* Whether compute_fn of n may raise / may return, in the current state.
\* fetch_data fails with the upstream; a metric fails on malformed data;
\* calc_risk and generate_report fail only on missing dependency data; the
\* function of a generic node is arbitrary.
ComputeOutcomes(n) ==
    LET fn == nodes[n].fn IN
    IF fn \in {"generic", "fetch_data"} THEN {TRUE, FALSE}
    ELSE IF fn = "metric" THEN (IF ReadsNone(n) THEN {TRUE} ELSE {TRUE, FALSE})
    ELSE {ReadsNone(n)}

(***************************************************************************)
(* The result loop of ComputationGraph.execute over zip(batch, results).   *)
(* A gathered value is [exc, res]: exc says it is an exception instance.   *)
(* Gives [results, halted]; halted is the early return inside the loop.    *)
(***************************************************************************)
\* returns at the first required node whose result is Failed
RECURSIVE process_results_halt(_, _)
process_results_halt(batch, acc) ==
    IF batch = <<>> THEN [results |-> acc, halted |-> FALSE]
    ELSE LET node_id == Head(batch)
             result == taskRes[node_id]
             acc1 == DictSet(acc, node_id, result.res)
         IN  IF result.res.state = FAILED /\ nodes[node_id].required
             THEN [results |-> acc1, halted |-> TRUE]
             ELSE process_results_halt(Tail(batch), acc1)

\* leaves the result of a skipped node unrecorded
RECURSIVE process_results_drop_skipped(_, _)
process_results_drop_skipped(batch, acc) ==
    IF batch = <<>> THEN [results |-> acc, halted |-> FALSE]
    ELSE LET node_id == Head(batch)
             result == taskRes[node_id]
         IN  process_results_drop_skipped(Tail(batch),
                 IF result.res.state = SKIPPED THEN acc
                 ELSE DictSet(acc, node_id, result.res))

RECURSIVE process_results(_, _)
process_results(batch, acc) ==
    IF batch = <<>> THEN [results |-> acc, halted |-> FALSE]
    ELSE LET node_id == Head(batch)
             result == taskRes[node_id]
         IN  IF result.exc
             THEN LET acc1 == DictSet(acc, node_id,
                                ComputationResult(node_id, FAILED, NoneVal,
                                                  ExcErr, {}))
                  IN  IF nodes[node_id].required
                      THEN [results |-> acc1, halted |-> TRUE]
                      ELSE process_results(Tail(batch), acc1)
             ELSE process_results(Tail(batch),
                                  DictSet(acc, node_id, result.res))

(***************************************************************************)
(* WalletAnalysisGraphBuilder.build_graph: the seven nodes, all required.  *)
(***************************************************************************)
MetricIds == {"concentration", "stablecoin_ratio", "counterparties",
              "suspicious_patterns"}

\* the risk_score node waits for fetch_data only
build_graph_early_risk ==
    [n \in CanonIds |->
        IF n = "fetch_data" THEN ComputationNode({}, TRUE, "fetch_data")
        ELSE IF n \in MetricIds \cup {"risk_score"}
             THEN ComputationNode({"fetch_data"}, TRUE, "metric")
        ELSE ComputationNode({"fetch_data", "risk_score"} \cup MetricIds,
                             TRUE, "report")]

build_graph ==
    [n \in CanonIds |->
        IF n = "fetch_data" THEN ComputationNode({}, TRUE, "fetch_data")
        ELSE IF n \in MetricIds
             THEN ComputationNode({"fetch_data"}, TRUE, "metric")
        ELSE IF n = "risk_score" THEN ComputationNode(MetricIds, TRUE, "risk")
        ELSE ComputationNode({"fetch_data", "risk_score"} \cup MetricIds,
                             TRUE, "report")]

(***************************************************************************)
(* MultiAgentOrchestrator.analyze_wallet, graph path: what it returns for  *)
(* the results of execute.                                                 *)
(***************************************************************************)
NoRet == [kind |-> "none", address |-> NoneVal, data |-> NoneVal,
          error |-> NoneVal, partial_results |-> EmptyDict]

\* takes every final_report result that is not Failed for a report
ReturnsReport_notFailed(res) ==
    "final_report" \in DOMAIN res /\ res["final_report"].state # FAILED

ReturnsReport(res) ==
    "final_report" \in DOMAIN res /\ res["final_report"].state = COMPLETED

\* leaves the nodes that did not run out of the bundle
analyze_wallet_return_ran(res) ==
    IF ReturnsReport(res)
    THEN [kind |-> "report", address |-> "addr",
          data |-> res["final_report"].data,
          error |-> NoneVal, partial_results |-> EmptyDict]
    ELSE [kind |-> "bundle", address |-> "addr", data |-> NoneVal,
          error |-> "Analysis incomplete",
          partial_results |->
              [k \in {x \in DOMAIN res : res[x].state # SKIPPED} |->
                  [state |-> res[k].state, data |-> res[k].data,
                   error |-> res[k].error]]]

analyze_wallet_return(res) ==
    IF ReturnsReport(res)
    THEN [kind |-> "report", address |-> "addr",
          data |-> res["final_report"].data,
          error |-> NoneVal, partial_results |-> EmptyDict]
    ELSE [kind |-> "bundle", address |-> "addr", data |-> NoneVal,
          error |-> "Analysis incomplete",
          partial_results |->
              [k \in DOMAIN res |->
                  [state |-> res[k].state, data |-> res[k].data,
                   error |-> res[k].error]]]

(***************************************************************************)
(* WalletDataCache and UnifiedDataFetcher.                                 *)
(***************************************************************************)
DEFAULT_TTL == 60

Addresses == {"A1", "A2"}
Lookbacks == {7, 30}

\* Seconds between two readings of the clock, and the last reading.
TimeStep == 30
MaxTime == 60

\* Largest number of fetcher calls made.
MaxCallers == 2

\* ttl arguments of direct WalletDataCache.get calls
TTLChoices == {30, DEFAULT_TTL}

\* WalletDataCache._make_key: the digest of "operation:k1=v1|k2=v2" over the
\* sorted parameters, one key per operation and parameter values.  get and
\* set of balances pass address only (lookback 0 here stands for no such
\* parameter).
_make_key(operation, address, lookback) ==
    [op |-> operation, address |-> address, lookback |-> lookback]

BalancesKey(a) == _make_key("balances", a, 0)
TransfersKey(a, lb) == _make_key("transfers", a, lb)
FullKey(a, lb) == _make_key("full_wallet", a, lb)

DatasetKeys ==
    {BalancesKey(a) : a \in Addresses}
        \cup {TransfersKey(a, lb) : a \in Addresses, lb \in Lookbacks}
AllKeys == DatasetKeys \cup {FullKey(a, lb) : a \in Addresses, lb \in Lookbacks}

\* Python None as a cached or returned value
NoneData == [kind |-> "None", ver |-> 0, mentions |-> {}, at |-> 0]

\* What the upstream client returns: the ver-th answer for its dataset,
\* whose printed form contains the addresses in mentions; at is the reading
\* of the clock when the answer was obtained.
UpstreamData(ver, mentions) == [kind |-> "data", ver |-> ver, mentions |-> mentions, at |-> now]

\* the snapshot dict of get_full_wallet_data
Snapshot(address, lookback, balances, transfers, at) ==
    [kind |-> "full_wallet", address |-> address, lookback_days |-> lookback,
     balances |-> balances, transfers |-> transfers, fetched_at |-> at]

\* the addresses that occur in str(data)
Mentions(data) ==
    IF data.kind = "full_wallet"
    THEN {data.address} \cup data.balances.mentions \cup data.transfers.mentions
    ELSE data.mentions

DictRemove(d, ks) == [x \in DOMAIN d \ ks |-> d[x]]

\* with <= for <: an entry exactly ttl old still counts as fresh
cache_get_inclusive(c, k, ttl) ==
    IF k \in DOMAIN c
    THEN IF now - c[k].timestamp <= ttl
         THEN [ret |-> c[k].data, cache |-> c]
         ELSE [ret |-> NoneData, cache |-> DictRemove(c, {k})]
    ELSE [ret |-> NoneData, cache |-> c]

\* WalletDataCache.get on cache contents c: [ret, cache]
cache_get(c, k, ttl) ==
    IF k \in DOMAIN c
    THEN IF now - c[k].timestamp < ttl
         THEN [ret |-> c[k].data, cache |-> c]
         ELSE [ret |-> NoneData, cache |-> DictRemove(c, {k})]
    ELSE [ret |-> NoneData, cache |-> c]

\* stores nothing
cache_set_drop(c, k, data) == c

\* WalletDataCache.set
cache_set(c, k, data) == DictSet(c, k, [data |-> data, timestamp |-> now])

\* WalletDataCache.invalidate; address NoneVal is the call without argument
cache_invalidate(c, address) ==
    IF address # NoneVal
    THEN DictRemove(c, {k \in DOMAIN c : address \in Mentions(c[k].data)})
    ELSE EmptyDict

(***************************************************************************)
(* UnifiedDataFetcher.get_balances / get_transfers on cache contents c.    *)
(* The body has no suspension point: the per-key lock is free whenever a   *)
(* task reaches it, and the NeoClient call is synchronous.  up is what the *)
(* upstream call does if it is made: [kind, mentions] with kind "ok" or    *)
(* "err".  Gives [cache, res, called]; res is [status, val], status        *)
(* "raised" for an exception.                                              *)
(***************************************************************************)
Value(v) == [status |-> "value", val |-> v]
Raised == [status |-> "raised", val |-> NoneData]
Pending == [status |-> "pending", val |-> NoneData]

\* returns what it fetched without storing it
fetch_dataset_nostore(c, k, ttl, up) ==
    LET first == cache_get(c, k, ttl) IN
    IF first.ret # NoneData
    THEN [cache |-> first.cache, res |-> Value(first.ret), called |-> FALSE]
    ELSE IF up.kind = "err"
         THEN [cache |-> first.cache, res |-> Raised, called |-> TRUE]
         ELSE [cache |-> first.cache,
               res |-> Value(IF up.kind = "null" THEN NoneData
                             ELSE UpstreamData(upCalls[k] + 1, up.mentions)),
               called |-> TRUE]

fetch_dataset(c, k, ttl, up) ==
    LET first == cache_get(c, k, ttl) IN
    IF first.ret # NoneData
    THEN [cache |-> first.cache, res |-> Value(first.ret), called |-> FALSE]
    ELSE LET second == cache_get(first.cache, k, ttl) IN
         IF second.ret # NoneData
         THEN [cache |-> second.cache, res |-> Value(second.ret),
               called |-> FALSE]
         ELSE IF up.kind = "err"
              THEN [cache |-> second.cache, res |-> Raised, called |-> TRUE]
              ELSE LET data == IF up.kind = "null" THEN NoneData
                               ELSE UpstreamData(upCalls[k] + 1, up.mentions)
                   IN  [cache |-> cache_set(second.cache, k, data),
                        res |-> Value(data), called |-> TRUE]

\* NeoClient.get_nep17_balances: an exception, or the "balance" list of the
\* answer, whose items (asset, amount, block) do not carry the address
BalancesUpstream(a) ==
    {[kind |-> "err", mentions |-> {}], [kind |-> "ok", mentions |-> {}]}

\* NeoClient.get_nep17_transfers: an exception, or the whole result of the
\* answer: null, or the address asked for and the sent and received
\* transfers, among whose counterparties the other address may occur
TransfersUpstream(a) ==
    {[kind |-> "err", mentions |-> {}], [kind |-> "null", mentions |-> {}]}
        \cup {[kind |-> "ok", mentions |-> m] : m \in {{a}, Addresses}}

(***************************************************************************)
(* Calls.  A call is a record: what was asked (op, address, lookback,      *)
(* ttl), where its task stands (pc), what gather holds of its two          *)
(* sub-fetches (bal, tr), what it returned (res), and history: how many    *)
(* upstream calls it made for each dataset (ub, ut), and the NeoClient of  *)
(* the fetcher it was made on (client), and whether it had to wait for the *)
(* lock (waited).                                                          *)
(***************************************************************************)
RequestKey(c) ==
    IF c.op = "balances" THEN BalancesKey(c.address)
    ELSE IF c.op = "transfers" THEN TransfersKey(c.address, c.lookback)
    ELSE FullKey(c.address, c.lookback)

\* The NeoClient of a fetcher: the one of NeoClient() when none is passed
\* to UnifiedDataFetcher, or one made for another RPC endpoint.
DefaultClient == "NeoClient()"
Clients == { DefaultClient, "NeoClient(mainnet)" }

NewCall(op, a, lb) ==
    [op |-> op, address |-> a, lookback |-> lb, pc |-> "start",
     res |-> Pending, bal |-> Pending, tr |-> Pending,
     ub |-> 0, ut |-> 0, client |-> DefaultClient, waited |-> FALSE]

FetchCalls == DOMAIN callers

\* no direct get has just been made
NoGet == [had |-> FALSE, ret |-> NoneData, evicted |-> FALSE]

InitCache ==
    /\ cache = EmptyDict
    /\ now = 0
    /\ upCalls = [k \in DatasetKeys |-> 0]
    /\ callers = <<>>
    /\ lastGet = NoGet

\* Addresses and lookbacks are taken in a fixed order of first use (the
\* calls up to renaming of addresses and lookbacks).
FirstUse(a, lb) ==
    /\ a = "A1" \/ \E j \in FetchCalls : callers[j].address = "A1"
    /\ lb \in {0, 30} \/ \E j \in FetchCalls : callers[j].lookback = 30

\* A task calls get_balances or get_transfers: the body runs from start to
\* end.
CallFetchBy(client, max, op, a, lb, up) ==
    /\ Cardinality(FetchCalls) < max
    /\ op \in {"balances", "transfers"}
    /\ op = "balances" <=> lb = 0
    /\ FirstUse(a, lb)
    /\ up \in IF op = "balances" THEN BalancesUpstream(a)
              ELSE TransfersUpstream(a)
    /\ LET k == _make_key(op, a, lb)
           r == fetch_dataset(cache, k, DEFAULT_TTL, up)
           n == IF r.called THEN 1 ELSE 0
       IN  /\ cache' = r.cache
           /\ upCalls' = [upCalls EXCEPT ![k] = @ + n]
           /\ callers' = Append(callers,
                  [NewCall(op, a, lb) EXCEPT
                      !.pc = "done", !.res = r.res,
                      !.ub = IF op = "balances" THEN n ELSE 0,
                      !.ut = IF op = "transfers" THEN n ELSE 0,
                      !.client = client])
    /\ lastGet' = NoGet
    /\ UNCHANGED now
    /\ UNCHANGED <<graphVars, scoreVars>>
CallFetchUpTo(max, op, a, lb, up) == CallFetchBy(DefaultClient, max, op, a, lb, up)
CallFetch(op, a, lb, up) == CallFetchUpTo(MaxCallers, op, a, lb, up)

\* A task calls get_full_wallet_data, which runs up to its gather: it
\* returns the snapshot from the cache, or the two sub-fetch tasks are
\* created.
CallFullUpTo(max, a, lb) ==
    /\ Cardinality(FetchCalls) < max
    /\ lb # 0
    /\ FirstUse(a, lb)
    /\ LET k == FullKey(a, lb)
           g == cache_get(cache, k, DEFAULT_TTL)
       IN  /\ cache' = g.cache
           /\ callers' = Append(callers,
                  IF g.ret # NoneData
                  THEN [NewCall("full_wallet", a, lb) EXCEPT
                           !.pc = "done", !.res = Value(g.ret)]
                  ELSE [NewCall("full_wallet", a, lb) EXCEPT
                           !.pc = "gather"])
    /\ lastGet' = NoGet
    /\ UNCHANGED <<now, upCalls>>
    /\ UNCHANGED <<graphVars, scoreVars>>
CallFull(a, lb) == CallFullUpTo(MaxCallers, a, lb)

\* the get_balances task of a get_full_wallet_data call
SubBalances(i, up) ==
    /\ i \in DOMAIN callers
    /\ callers[i].pc = "gather"
    /\ callers[i].bal = Pending
    /\ up \in BalancesUpstream(callers[i].address)
    /\ LET k == BalancesKey(callers[i].address)
           r == fetch_dataset(cache, k, DEFAULT_TTL, up)
           n == IF r.called THEN 1 ELSE 0
       IN  /\ cache' = r.cache
           /\ upCalls' = [upCalls EXCEPT ![k] = @ + n]
           /\ callers' = [callers EXCEPT ![i] =
                  [@ EXCEPT !.bal = r.res, !.ub = n]]
    /\ lastGet' = NoGet
    /\ UNCHANGED now
    /\ UNCHANGED <<graphVars, scoreVars>>

\* the get_transfers task of a get_full_wallet_data call; it was created
\* after the get_balances task and runs after it
SubTransfers(i, up) ==
    /\ i \in DOMAIN callers
    /\ callers[i].pc = "gather"
    /\ callers[i].bal # Pending
    /\ callers[i].tr = Pending
    /\ up \in TransfersUpstream(callers[i].address)
    /\ LET k == TransfersKey(callers[i].address, callers[i].lookback)
           r == fetch_dataset(cache, k, DEFAULT_TTL, up)
           n == IF r.called THEN 1 ELSE 0
       IN  /\ cache' = r.cache
           /\ upCalls' = [upCalls EXCEPT ![k] = @ + n]
           /\ callers' = [callers EXCEPT ![i] =
                  [@ EXCEPT !.tr = r.res, !.ut = n]]
    /\ lastGet' = NoGet
    /\ UNCHANGED now
    /\ UNCHANGED <<graphVars, scoreVars>>

\* stores the snapshot of what did arrive even when a sub-fetch raised
FullFinish_partial(i) ==
    /\ i \in DOMAIN callers
    /\ callers[i].pc = "gather"
    /\ callers[i].bal # Pending
    /\ callers[i].tr # Pending
    /\ LET c == callers[i]
           full_data == Snapshot(c.address, c.lookback, c.bal.val, c.tr.val,
                                 now)
       IN  /\ cache' = cache_set(cache, RequestKey(c), full_data)
           /\ callers' = [callers EXCEPT ![i] =
                  [@ EXCEPT !.pc = "done",
                            !.res = IF c.bal.status = "raised"
                                       \/ c.tr.status = "raised"
                                    THEN Raised ELSE Value(full_data)]]
    /\ lastGet' = NoGet
    /\ UNCHANGED <<now, upCalls>>
    /\ UNCHANGED <<graphVars, scoreVars>>

\* get_full_wallet_data after its gather: the exception of a sub-fetch
\* propagates, else the snapshot is built, stored and returned.
FullFinish(i) ==
    /\ i \in DOMAIN callers
    /\ callers[i].pc = "gather"
    /\ callers[i].bal # Pending
    /\ callers[i].tr # Pending
    /\ LET c == callers[i]
           full_data == Snapshot(c.address, c.lookback, c.bal.val, c.tr.val,
                                 now)
       IN  IF c.bal.status = "raised" \/ c.tr.status = "raised"
           THEN /\ callers' = [callers EXCEPT ![i] =
                       [@ EXCEPT !.pc = "done", !.res = Raised]]
                /\ UNCHANGED cache
           ELSE /\ cache' = cache_set(cache, RequestKey(c), full_data)
                /\ callers' = [callers EXCEPT ![i] =
                       [@ EXCEPT !.pc = "done", !.res = Value(full_data)]]
    /\ lastGet' = NoGet
    /\ UNCHANGED <<now, upCalls>>
    /\ UNCHANGED <<graphVars, scoreVars>>

\* time.time() moves on
Tick ==
    /\ now + TimeStep <= MaxTime
    /\ now' = now + TimeStep
    /\ lastGet' = NoGet
    /\ UNCHANGED <<cache, upCalls, callers>>
    /\ UNCHANGED <<graphVars, scoreVars>>

\* WalletDataCache.get called directly, with any ttl, on a key that has an
\* entry
CacheGet(k, ttl) ==
    /\ k \in DOMAIN cache
    /\ LET g == cache_get(cache, k, ttl) IN
       /\ cache' = g.cache
       /\ lastGet' = [had |-> TRUE, ret |-> g.ret,
                      evicted |-> k \notin DOMAIN g.cache]
    /\ UNCHANGED <<now, upCalls, callers>>
    /\ UNCHANGED <<graphVars, scoreVars>>

\* WalletDataCache.invalidate (WalletGuardianManager.clear_cache)
Invalidate(a) ==
    /\ cache' = cache_invalidate(cache, a)
    /\ lastGet' = NoGet
    /\ UNCHANGED <<now, upCalls, callers>>
    /\ UNCHANGED <<graphVars, scoreVars>>

(***************************************************************************)
(* State after construction.                                               *)
(***************************************************************************)
NoTopo == [set |-> FALSE, val |-> <<>>]

InitGraph ==
    /\ nodes = EmptyDict
    /\ nodeOrder = <<>>
    /\ topoCache = NoTopo
    /\ hashOrder \in HashOrders
    /\ results = EmptyDict
    /\ phase = "build"
    /\ mode = "graph"
    /\ batches = <<>>
    /\ batchIdx = 0
    /\ taskRes = EmptyDict
    /\ invoked = [n \in Ids |-> 0]
    /\ ret = NoRet

(***************************************************************************)
(* Operations on the graph.                                                *)
(***************************************************************************)
DepChoices == {S \in SUBSET GenericIds : Cardinality(S) <= MaxDeps}

\* leaves the cached topological order in place
AddNode_keep_order(id, deps, required) ==
    /\ phase = "build"
    /\ mode = "graph"
    /\ \/ id \in NodeSet
       \/ /\ Len(nodeOrder) < Len(GenericSeq)
          /\ id = GenericSeq[Len(nodeOrder) + 1]
    /\ nodes' = DictSet(nodes, id, ComputationNode(deps, required, "generic"))
    /\ nodeOrder' = IF id \in NodeSet THEN nodeOrder ELSE Append(nodeOrder, id)
    /\ UNCHANGED <<topoCache, hashOrder, results, phase, mode, batches,
                   batchIdx, taskRes, invoked, ret>>
    /\ UNCHANGED <<cacheVars, scoreVars>>

\* ComputationGraph.add_node.  New ids are taken in the order of GenericSeq
\* (graphs up to renaming of their nodes); an id already present is replaced.
AddNode(id, deps, required) ==
    /\ phase = "build"
    /\ mode = "graph"
    /\ \/ id \in NodeSet
       \/ /\ Len(nodeOrder) < Len(GenericSeq)
          /\ id = GenericSeq[Len(nodeOrder) + 1]
    /\ nodes' = DictSet(nodes, id, ComputationNode(deps, required, "generic"))
    /\ nodeOrder' = IF id \in NodeSet THEN nodeOrder ELSE Append(nodeOrder, id)
    /\ topoCache' = NoTopo
    /\ UNCHANGED <<hashOrder, results, phase, mode, batches, batchIdx,
                   taskRes, invoked, ret>>
    /\ UNCHANGED <<cacheVars, scoreVars>>

\* analyze_wallet(use_graph=True) up to graph_builder.build_graph
BuildGraph ==
    /\ phase = "build"
    /\ mode = "graph"
    /\ NodeSet = {}
    /\ nodes' = build_graph
    /\ nodeOrder' = CanonSeq
    /\ topoCache' = NoTopo
    /\ mode' = "analyze"
    /\ UNCHANGED <<hashOrder, results, phase, batches, batchIdx, taskRes,
                   invoked, ret>>
    /\ UNCHANGED <<cacheVars, scoreVars>>

\* ComputationGraph.execute up to its first gather: get_parallel_batches
\* (which stores the topological order it computed), then the tasks of the
\* first batch are created.  With no batch at all it returns at once.
Execute ==
    /\ phase = "build"
    /\ LET topo == _topological_sort
           r == get_parallel_batches
       IN  /\ topoCache' = IF topo.ok THEN [set |-> TRUE, val |-> topo.val]
                           ELSE topoCache
           /\ IF ~r.ok
              THEN /\ phase' = "raised"
                   /\ UNCHANGED <<batches, batchIdx, ret>>
              ELSE IF r.val = <<>>
              THEN /\ phase' = "returned"
                   /\ ret' = IF mode = "analyze"
                             THEN analyze_wallet_return(results) ELSE ret
                   /\ UNCHANGED <<batches, batchIdx>>
              ELSE /\ phase' = "exec"
                   /\ batches' = r.val
                   /\ batchIdx' = 1
                   /\ UNCHANGED ret
    /\ UNCHANGED <<nodes, nodeOrder, hashOrder, results, mode, taskRes,
                   invoked>>
    /\ UNCHANGED <<cacheVars, scoreVars>>

\* One _execute_node task of the current batch runs to its end.
RunNode(n, raises) ==
    /\ phase = "exec"
    /\ n \in SeqRange(batches[batchIdx])
    /\ n \notin DOMAIN taskRes
    /\ raises \in ComputeOutcomes(n)
    /\ taskRes' = DictSet(taskRes, n,
                          [exc |-> FALSE, res |-> _execute_node(n, raises),
                           deps |-> dep_results(n)])
    /\ invoked' = IF Invokes(n) THEN [invoked EXCEPT ![n] = @ + 1] ELSE invoked
    /\ UNCHANGED <<nodes, nodeOrder, topoCache, hashOrder, results, phase,
                   mode, batches, batchIdx, ret>>
    /\ UNCHANGED <<cacheVars, scoreVars>>

\* Variant: the loop over the batches does not move on to the next batch.
JoinBatch_repeat ==
    /\ phase = "exec"
    /\ SeqRange(batches[batchIdx]) \subseteq DOMAIN taskRes
    /\ LET p == process_results(batches[batchIdx], results)
       IN  /\ results' = p.results
           /\ phase' = IF p.halted THEN "returned" ELSE "exec"
           /\ ret' = IF p.halted /\ mode = "analyze"
                     THEN analyze_wallet_return(p.results) ELSE ret
    /\ taskRes' = EmptyDict
    /\ UNCHANGED <<nodes, nodeOrder, topoCache, hashOrder, mode, batches,
                   batchIdx, invoked>>
    /\ UNCHANGED <<cacheVars, scoreVars>>

\* gather of the current batch has every value: the result loop runs, then
\* the next batch is started or execute returns (and analyze_wallet with it).
JoinBatch ==
    /\ phase = "exec"
    /\ SeqRange(batches[batchIdx]) \subseteq DOMAIN taskRes
    /\ LET p == process_results(batches[batchIdx], results)
           finished == p.halted \/ batchIdx = Len(batches)
       IN  /\ results' = p.results
           /\ phase' = IF finished THEN "returned" ELSE "exec"
           /\ batchIdx' = IF finished THEN batchIdx ELSE batchIdx + 1
           /\ ret' = IF finished /\ mode = "analyze"
                     THEN analyze_wallet_return(p.results) ELSE ret
    /\ taskRes' = EmptyDict
    /\ UNCHANGED <<nodes, nodeOrder, topoCache, hashOrder, mode, batches,
                   invoked>>
    /\ UNCHANGED <<cacheVars, scoreVars>>

\* No scoring or analysis call has been made.
NoMetrics == [concentration |-> 0, stablecoin_ratio |-> 0,
              counterparty_count |-> 0, suspicious_patterns |-> << >>]
NoWallet == [balances |-> << >>, sent |-> << >>, received |-> << >>]
NoOut == [by |-> "none"]
InitScoreIdle == metricsIn = NoMetrics /\ walletIn = NoWallet /\ out = NoOut

Init == InitGraph /\ InitCache /\ InitScoreIdle

Next ==
    \/ \E id \in GenericIds, deps \in DepChoices, required \in BOOLEAN :
           AddNode(id, deps, required)
    \/ BuildGraph
    \/ Execute
    \/ \E n \in Ids, raises \in BOOLEAN : RunNode(n, raises)
    \/ JoinBatch

Spec == Init /\ [][Next]_vars

NextFetch ==
    \/ \E op \in {"balances", "transfers"}, a \in Addresses,
          lb \in Lookbacks \cup {0} :
          \E up \in BalancesUpstream(a) \cup TransfersUpstream(a) :
              CallFetch(op, a, lb, up)
    \/ \E a \in Addresses, lb \in Lookbacks : CallFull(a, lb)
    \/ \E i \in 1..MaxCallers :
          \E up \in BalancesUpstream("A1") \cup BalancesUpstream("A2") :
              SubBalances(i, up)
    \/ \E i \in 1..MaxCallers :
          \E up \in TransfersUpstream("A1") \cup TransfersUpstream("A2") :
              SubTransfers(i, up)
    \/ \E i \in 1..MaxCallers : FullFinish(i)
    \/ Tick

\* no call is between its start and its return
NoneInFlight == \A i \in DOMAIN callers : callers[i].pc = "done"

\* one fetcher call at a time; the clock and the direct cache operations
\* step at any point of it
NextCache ==
    \/ /\ NoneInFlight
       /\ \E op \in {"balances", "transfers"}, a \in Addresses,
             lb \in Lookbacks \cup {0} :
             \E up \in BalancesUpstream(a) \cup TransfersUpstream(a) :
                 CallFetch(op, a, lb, up)
    \/ /\ NoneInFlight
       /\ \E a \in Addresses, lb \in Lookbacks : CallFull(a, lb)
    \/ \E i \in 1..MaxCallers :
          \E up \in BalancesUpstream("A1") \cup BalancesUpstream("A2") :
              SubBalances(i, up)
    \/ \E i \in 1..MaxCallers :
          \E up \in TransfersUpstream("A1") \cup TransfersUpstream("A2") :
              SubTransfers(i, up)
    \/ \E i \in 1..MaxCallers : FullFinish(i)
    \/ Tick
    \/ \E k \in AllKeys, ttl \in TTLChoices : CacheGet(k, ttl)
    \/ \E a \in Addresses \cup {NoneVal} : Invalidate(a)

\* the graph is left as constructed, with one set-iteration order
InitIdle ==
    /\ InitGraph /\ hashOrder = GenericSeq \o CanonSeq /\ InitCache
    /\ InitScoreIdle

SpecFetch == InitIdle /\ [][NextFetch]_vars
SpecCache == InitIdle /\ [][NextCache]_vars

(***************************************************************************)
(* Vocabulary of the properties, defined from the dependency relation      *)
(* alone.                                                                  *)
(***************************************************************************)
RECURSIVE DepClosure(_, _)
DepClosure(S, k) ==
    IF k = 0 THEN S
    ELSE DepClosure(S \cup UNION {nodes[x].dependencies : x \in S \cap NodeSet},
                    k - 1)

\* every id n depends on, directly or through a chain of dependencies
TransDeps(n) == DepClosure(nodes[n].dependencies, Cardinality(NodeSet))

Cyclic == \E n \in NodeSet : n \in TransDeps(n)
MissingDep == \E n \in NodeSet : ~(nodes[n].dependencies \subseteq NodeSet)
ValidGraph == ~Cyclic /\ ~MissingDep

HasState(n, st) == n \in DOMAIN results /\ results[n].state = st
FailedRequired(n) == HasState(n, FAILED) /\ nodes[n].required
FailedOptional(n) == HasState(n, FAILED) /\ ~nodes[n].required

BatchOf(n) == CHOOSE i \in 1..Len(batches) : n \in SeqRange(batches[i])
NoneInvoked == \A n \in Ids : invoked[n] = 0

IsTopoOrder(o) ==
    /\ Len(o) = Cardinality(NodeSet)
    /\ SeqRange(o) = NodeSet
    /\ \A i, j \in 1..Len(o) : o[j] \in nodes[o[i]].dependencies => j < i

(***************************************************************************)
(* C1: analyze_wallet (graph path) returns the report exactly when the     *)
(* result of final_report is Completed; when final_report is Failed,       *)
(* Skipped or has no result it returns the diagnostic bundle with the      *)
(* address, the error and the partial results.                             *)
(***************************************************************************)
C1_ReportIffFinalCompleted ==
    (mode = "analyze" /\ phase = "returned") =>
        /\ HasState("final_report", COMPLETED) =>
              /\ ret.kind = "report"
              /\ ret.data = results["final_report"].data
        /\ ( \/ "final_report" \notin DOMAIN results
             \/ results["final_report"].state \in {FAILED, SKIPPED} ) =>
              /\ ret.kind = "bundle"
              /\ ret.address = "addr"
              /\ ret.error = "Analysis incomplete"
              /\ DOMAIN ret.partial_results = DOMAIN results
              /\ \A k \in DOMAIN results :
                    ret.partial_results[k].state = results[k].state

C1_Witness ==
    /\ mode = "analyze"
    /\ phase = "returned"
    /\ HasState("final_report", SKIPPED)
    /\ ret.kind = "bundle"

(***************************************************************************)
(* C2: when a required node has failed, every node that depends on it,     *)
(* directly or through a chain of dependencies, ends Skipped and its       *)
(* compute function is never invoked (so in the canonical graph a failed   *)
(* fetch_data leaves the six other nodes Skipped).                         *)
(***************************************************************************)
C2_TransitiveDependentsSkipped ==
    phase = "returned" =>
        \A n, m \in NodeSet :
            (FailedRequired(n) /\ n \in TransDeps(m)) =>
                HasState(m, SKIPPED) /\ invoked[m] = 0

(***************************************************************************)
(* C3: once the batch that holds a Failed required node has completed, no  *)
(* later batch is started and no compute function of a node of a later     *)
(* batch is invoked.                                                       *)
(***************************************************************************)
C3_RequiredFailureHalts ==
    phase \in {"exec", "returned"} =>
        \A n \in NodeSet :
            FailedRequired(n) =>
                /\ batchIdx <= BatchOf(n)
                /\ \A m \in NodeSet : BatchOf(m) > BatchOf(n) => invoked[m] = 0

(***************************************************************************)
(* C4 as stated: when a node that is not required has failed, every node   *)
(* that declares it as a dependency is Skipped and its compute function is *)
(* not invoked.                                                            *)
(***************************************************************************)
C4_OptionalFailureSkipsDependents ==
    \A n, m \in NodeSet :
        (FailedOptional(n) /\ n \in nodes[m].dependencies
            /\ m \in DOMAIN results) =>
                HasState(m, SKIPPED) /\ invoked[m] = 0

(***************************************************************************)
(* C4 amended: the failure of a node that is not required skips nothing.   *)
(* Every recorded node whose Failed direct dependencies are all not        *)
(* required (dependents of the failed node, its siblings and unrelated     *)
(* nodes alike) had its compute function invoked once and is Completed or  *)
(* Failed, never Skipped.                                                  *)
(***************************************************************************)
C4_OptionalFailureSkipsNothing ==
    \A m \in DOMAIN results :
        (\A d \in nodes[m].dependencies : ~FailedRequired(d)) =>
            /\ invoked[m] = 1
            /\ results[m].state \in {COMPLETED, FAILED}

C4_Witness ==
    \E n, m, k \in NodeSet :
        /\ FailedOptional(n)
        /\ n \in nodes[m].dependencies
        /\ HasState(m, COMPLETED)
        /\ invoked[m] = 1
        /\ k # n /\ nodes[k].dependencies = {} /\ HasState(k, COMPLETED)

(***************************************************************************)
(* C8: for a graph with a dependency cycle execute raises, invokes no      *)
(* compute function and records no result.                                 *)
(***************************************************************************)
C8_CycleRaisesBeforeAnyNode ==
    (Cyclic /\ phase # "build") =>
        /\ phase = "raised"
        /\ NoneInvoked
        /\ results = EmptyDict

C8_Witness ==
    /\ phase = "raised"
    /\ \E n, m \in NodeSet :
          /\ n # m
          /\ n \in nodes[m].dependencies
          /\ m \in nodes[n].dependencies
    /\ \E k \in NodeSet : nodes[k].dependencies = {}

(***************************************************************************)
(* C9: when a node names a dependency that was never added, execute        *)
(* raises before any compute function runs, also when other nodes of the   *)
(* graph are fully resolvable.                                             *)
(***************************************************************************)
C9_MissingDependencyRaises ==
    /\ MissingDep => ~get_parallel_batches.ok
    /\ (MissingDep /\ phase # "build") =>
          /\ phase = "raised"
          /\ NoneInvoked
          /\ results = EmptyDict

C9_Witness ==
    /\ phase = "raised"
    /\ ~Cyclic
    /\ MissingDep
    /\ \E k \in NodeSet : nodes[k].dependencies = {}

(***************************************************************************)
(* C10: for an acyclic graph whose dependencies all exist,                 *)
(* _topological_sort gives a sequence holding each node exactly once in    *)
(* which every node comes after all of its dependencies.                   *)
(***************************************************************************)
C10_TopologicalOrder ==
    ValidGraph =>
        /\ _topological_sort.ok
        /\ IsTopoOrder(_topological_sort.val)
        /\ topoCache.set => IsTopoOrder(topoCache.val)

C10_Witness ==
    /\ topoCache.set
    /\ ValidGraph
    /\ Len(nodeOrder) = 3
    /\ nodes[nodeOrder[1]].dependencies = {nodeOrder[2]}
    /\ nodes[nodeOrder[2]].dependencies = {nodeOrder[3]}
    /\ topoCache.val = Reverse(nodeOrder)

RECURSIVE Concat(_)
Concat(b) == IF b = <<>> THEN <<>> ELSE Head(b) \o Concat(Tail(b))

\* b puts each node in exactly one batch, after the batches of all its
\* dependencies
IsBatchPartition(b) ==
    /\ \A n \in NodeSet :
          Cardinality({i \in 1..Len(b) : n \in SeqRange(b[i])}) = 1
    /\ \A i \in 1..Len(b) :
          /\ SeqRange(b[i]) \subseteq NodeSet
          /\ Cardinality(SeqRange(b[i])) = Len(b[i])
          /\ \A n \in SeqRange(b[i]) : \A d \in nodes[n].dependencies :
                \E j \in 1..(i - 1) : d \in SeqRange(b[j])

(***************************************************************************)
(* C11: for every acyclic graph whose dependencies all exist,              *)
(* get_parallel_batches returns batches that partition the node set, with  *)
(* all dependencies of a node in strictly earlier batches, so that the     *)
(* batches concatenated in order are a topological order; the batches      *)
(* execute runs are these.                                                 *)
(***************************************************************************)
C11_BatchesPartition ==
    ValidGraph =>
        /\ get_parallel_batches.ok
        /\ IsBatchPartition(get_parallel_batches.val)
        /\ IsTopoOrder(Concat(get_parallel_batches.val))
        /\ phase = "exec" => batches = get_parallel_batches.val

C11_Witness ==
    /\ phase = "exec"
    /\ ValidGraph
    /\ Len(batches) = 2
    /\ Len(batches[2]) = 2
    /\ \A n \in SeqRange(batches[2]) :
          nodes[n].dependencies = SeqRange(batches[1])

(***************************************************************************)
(* Vocabulary of the cache properties.                                     *)
(***************************************************************************)
SameRequest(c, d) ==
    c.op = d.op /\ c.address = d.address /\ c.lookback = d.lookback

Returned(c) == c.pc = "done" /\ c.res.status = "value"

\* the value carries an upstream answer for each of its datasets
HasData(v) ==
    IF v.kind = "full_wallet"
    THEN v.balances # NoneData /\ v.transfers # NoneData
    ELSE v # NoneData

\* two returned values agree in everything but the time the snapshot was built
SameData(v, w) ==
    IF v.kind = "full_wallet" /\ w.kind = "full_wallet"
    THEN /\ v.address = w.address
         /\ v.lookback_days = w.lookback_days
         /\ v.balances = w.balances
         /\ v.transfers = w.transfers
    ELSE v = w

\* a get_balances or get_transfers body ran for dataset key k in this step
FetchedIn(k) ==
    \/ /\ Len(callers') = Len(callers) + 1
       /\ callers'[Len(callers')].op \in {"balances", "transfers"}
       /\ RequestKey(callers'[Len(callers')]) = k
    \/ \E i \in DOMAIN callers :
          \/ /\ callers[i].bal = Pending
             /\ callers'[i].bal # Pending
             /\ BalancesKey(callers[i].address) = k
          \/ /\ callers[i].tr = Pending
             /\ callers'[i].tr # Pending
             /\ TransfersKey(callers[i].address, callers[i].lookback) = k

GetStep ==
    \A k \in AllKeys, T \in TTLChoices :
        CacheGet(k, T) =>
            IF now - cache[k].timestamp < T
            THEN /\ lastGet'.ret = cache[k].data
                 /\ ~lastGet'.evicted
                 /\ cache' = cache
            ELSE /\ lastGet'.ret = NoneData
                 /\ lastGet'.evicted
                 /\ k \notin DOMAIN cache'
                 /\ \A x \in DOMAIN cache \ {k} :
                        x \in DOMAIN cache' /\ cache'[x] = cache[x]

FetchStep ==
    \A k \in DatasetKeys :
        (k \in DOMAIN cache /\ FetchedIn(k)
            /\ now - cache[k].timestamp >= DEFAULT_TTL) =>
                upCalls'[k] = upCalls[k] + 1

C6_CacheTTL == [][GetStep /\ FetchStep]_vars

\* a direct get has just found an entry too old, returned None and deleted it
C6_Witness ==
    /\ lastGet.had
    /\ lastGet.evicted
    /\ lastGet.ret = NoneData
    /\ \E T \in TTLChoices : now >= T

(***************************************************************************)
(* C7: invalidate(address) removes every entry whose key was made from     *)
(* that address (balances, transfers and full_wallet, any lookback), and   *)
(* invalidate() removes every entry.                                       *)
(***************************************************************************)
C7_InvalidateRemovesAddress ==
    [][ \A a \in Addresses \cup {NoneVal} :
            Invalidate(a) =>
                IF a = NoneVal THEN cache' = EmptyDict
                ELSE \A k \in DOMAIN cache' : k.address # a ]_vars

\* a finished get_full_wallet_data call that returned a snapshot
FullOK(c) == c.op = "full_wallet" /\ Returned(c)

\* a finished get_full_wallet_data call that built and stored its snapshot
Builder(c) == FullOK(c) /\ c.bal # Pending

\* what get_full_wallet_data(a, lb) finds under the full_wallet key now
RepeatResult(a, lb) == cache_get(cache, FullKey(a, lb), DEFAULT_TTL).ret

InWindow(c) == now - c.res.val.fetched_at < DEFAULT_TTL

\* this step is a get_full_wallet_data call that finds the snapshot entry
RepeatStep ==
    /\ Len(callers') = Len(callers) + 1
    /\ callers'[Len(callers')].op = "full_wallet"
    /\ RepeatResult(callers'[Len(callers')].address,
                    callers'[Len(callers')].lookback) # NoneData

RepeatServed ==
    \A i \in DOMAIN callers :
        (FullOK(callers[i]) /\ InWindow(callers[i])) =>
            LET c == callers[i]
                r == RepeatResult(c.address, c.lookback)
            IN  /\ r # NoneData
                /\ \E j \in DOMAIN callers :
                      /\ Builder(callers[j])
                      /\ SameRequest(callers[j], c)
                      /\ callers[j].res.val = r
                /\ r.fetched_at >= c.res.val.fetched_at
                /\ (\A j \in DOMAIN callers :
                        (Builder(callers[j]) /\ SameRequest(callers[j], c))
                            => callers[j].res.val = c.res.val)
                      => r = c.res.val

RepeatReturns ==
    RepeatStep =>
        LET c == callers'[Len(callers')] IN
        /\ c.pc = "done"
        /\ c.res = Value(RepeatResult(c.address, c.lookback))
        /\ c.ub = 0 /\ c.ut = 0
        /\ upCalls' = upCalls

Finishes(i) ==
    /\ i \in DOMAIN callers
    /\ callers[i].pc = "gather"
    /\ callers'[i].pc = "done"

\* an exception of either sub-fetch reaches the caller and nothing is stored
FailurePropagates ==
    \A i \in DOMAIN callers :
        Finishes(i) =>
            IF callers[i].bal = Raised \/ callers[i].tr = Raised
            THEN callers'[i].res = Raised /\ cache' = cache
            ELSE callers'[i].res.status = "value"

\* a get_balances / get_transfers body raised in this step
RaisedIn ==
    \/ /\ Len(callers') = Len(callers) + 1
       /\ callers'[Len(callers')].res = Raised
    \/ \E i \in DOMAIN callers :
          \/ callers[i].bal = Pending /\ callers'[i].bal = Raised
          \/ callers[i].tr = Pending /\ callers'[i].tr = Raised

\* a get_balances / get_transfers body that raised had called the upstream
\* and leaves no entry under its key (but a None stored before)
FailedFetchStoresNothing ==
    \A k \in DatasetKeys :
        (FetchedIn(k) /\ RaisedIn) =>
            /\ upCalls'[k] = upCalls[k] + 1
            /\ k \in DOMAIN cache' =>
                  /\ k \in DOMAIN cache
                  /\ cache'[k] = cache[k]
                  /\ cache[k].data = NoneData

\* a snapshot request that finds no entry under its key starts the two
\* sub-fetches
MissFetches ==
    \A a \in Addresses, lb \in Lookbacks :
        (CallFull(a, lb) /\ RepeatResult(a, lb) = NoneData) =>
            /\ callers'[Len(callers')].pc = "gather"
            /\ callers'[Len(callers')].bal = Pending
            /\ callers'[Len(callers')].tr = Pending

\* a failed snapshot request is no builder of an entry
FailedLeavesNoEntry ==
    \A a \in Addresses, lb \in Lookbacks :
        FullKey(a, lb) \in DOMAIN cache =>
            \E j \in DOMAIN callers :
                /\ Builder(callers[j])
                /\ callers[j].address = a /\ callers[j].lookback = lb

(***************************************************************************)
(* C13: when the balances or the transfers sub-fetch of a                  *)
(* get_full_wallet_data call raises, the call raises and writes no         *)
(* full_wallet entry (every full_wallet entry was stored by a call that    *)
(* returned a snapshot); the sub-fetch that raised leaves no entry of its  *)
(* own, and a later snapshot request that finds no full_wallet entry       *)
(* starts both sub-fetches again.                                          *)
(***************************************************************************)
C13_FailureNotCached ==
    [][/\ FailurePropagates
       /\ FailedFetchStoresNothing
       /\ MissFetches
       /\ FailedLeavesNoEntry']_vars

C13_Witness ==
    \E i, j \in DOMAIN callers :
        /\ i < j
        /\ callers[i].op = "full_wallet" /\ callers[i].pc = "done"
        /\ callers[i].res = Raised
        /\ callers[i].bal.status = "value"
        /\ callers[i].tr = Raised
        /\ SameRequest(callers[i], callers[j])
        /\ Builder(callers[j])
        /\ callers[j].ub = 0 /\ callers[j].ut = 1
        /\ upCalls[TransfersKey(callers[i].address, callers[i].lookback)] = 2

\* the _execute_node task of n ends in this step
TaskEnds(n) == n \notin DOMAIN taskRes /\ n \in DOMAIN taskRes'

\* the gather of the current batch returns in this step
BatchJoins == phase = "exec" /\ taskRes # EmptyDict /\ taskRes' = EmptyDict

\* a task never ends with an exception: a compute function that was called
\* gives Completed, or Failed with the message of what it raised
RaiseIsRecorded ==
    \A n \in Ids :
        TaskEnds(n) =>
            LET r == taskRes'[n] IN
            /\ ~r.exc
            /\ r.res.node_id = n
            /\ IF invoked'[n] = invoked[n]
               THEN r.res.state = SKIPPED
               ELSE /\ r.res.state \in {COMPLETED, FAILED}
                    /\ r.res.state = FAILED =>
                          r.res.error = ExcErr /\ r.res.data = NoneVal

\* every node of the batch gets the result of its own task
BatchIsRecorded ==
    BatchJoins =>
        /\ \A n \in SeqRange(batches[batchIdx]) :
              n \in DOMAIN results' /\ results'[n] = taskRes[n].res
        /\ \A n \in DOMAIN results : n \in DOMAIN results'

(***************************************************************************)
(* C14: when a compute function raises, execute does not raise: the node's *)
(* result is Failed with the message of the exception, and every node of   *)
(* the batch has the result of its own task recorded.                      *)
(***************************************************************************)
C14_RaiseRecordedAsFailed ==
    [][/\ phase = "exec" => phase' \in {"exec", "returned"}
       /\ RaiseIsRecorded
       /\ BatchIsRecorded]_vars

C14_Witness ==
    /\ phase \in {"exec", "returned"}
    /\ \E i \in 1..Len(batches) :
          /\ Len(batches[i]) >= 2
          /\ SeqRange(batches[i]) \subseteq DOMAIN results
          /\ HasState(batches[i][1], FAILED)
          /\ nodes[batches[i][1]].required
          /\ results[batches[i][1]].error = ExcErr
          /\ invoked[batches[i][1]] = 1
          /\ HasState(batches[i][2], COMPLETED)

TerminalStates == {COMPLETED, FAILED, SKIPPED}

(***************************************************************************)
(* C15: whenever analyze_wallet returns a diagnostic bundle, its           *)
(* partial_results maps every node of the executed graph (the seven nodes  *)
(* of the canonical graph) to the terminal state, the data or None and the *)
(* error or None of that node's result.                                    *)
(***************************************************************************)
C15_BundleMapsEveryNode ==
    (mode = "analyze" /\ phase = "returned" /\ ret.kind = "bundle") =>
        /\ DOMAIN ret.partial_results = NodeSet
        /\ NodeSet = CanonIds
        /\ Cardinality(DOMAIN ret.partial_results) = 7
        /\ \A k \in DOMAIN ret.partial_results :
              LET e == ret.partial_results[k] IN
              /\ e.state \in TerminalStates
              /\ e.state = results[k].state
              /\ e.data = results[k].data
              /\ e.error = results[k].error
              /\ e.state = COMPLETED <=> e.data # NoneVal
              /\ e.state = COMPLETED <=> e.error = NoErr

C15_Witness ==
    /\ mode = "analyze" /\ phase = "returned" /\ ret.kind = "bundle"
    /\ ret.partial_results["fetch_data"].state = COMPLETED
    /\ ret.partial_results["concentration"].state = FAILED
    /\ ret.partial_results["counterparties"].state = COMPLETED
    /\ ret.partial_results["risk_score"].state = SKIPPED
    /\ ret.partial_results["final_report"].state = SKIPPED

(***************************************************************************)
(* Trust scoring (common.py) and its consumers.                            *)
(*                                                                         *)
(* A metric (concentration, stablecoin ratio) is the quotient of two       *)
(* amounts; it is kept as the exact fraction num/den, den > 0, and compared*)
(* with the decimal literals of the code by cross-multiplication.  Amounts *)
(* are counted in halves of a token, which floats represent exactly.       *)
(***************************************************************************)
Frac(n, d) == [num |-> n, den |-> d]
\* f > p/q and f < p/q
Gt(f, p, q) == f.num * q > p * f.den
Lt(f, p, q) == f.num * q < p * f.den
Clamp(lo, hi, x) == IF x < lo THEN lo ELSE IF x > hi THEN hi ELSE x

\* Bound: the longest list of suspicious patterns handed to a scoring call.
MaxPatterns == 3

Deduction(reason, penalty) == [reason |-> reason, penalty |-> penalty]

\* pattern.get("level", "low") and the penalty ladder of the loop body.
pattern_penalty(pattern) ==
    LET level == IF pattern.level = NoneVal THEN "low" ELSE pattern.level
    IN  IF level = "critical" THEN 30
        ELSE IF level = "high" THEN 20
        ELSE IF level = "medium" THEN 10
        ELSE 5

\* compute_trust_score without its final clamp.
compute_trust_score_unclamped(concentration, stablecoin_ratio, counterparty_count, suspicious_patterns) ==
    LET d1 == IF Gt(concentration, 8, 10)
                  THEN << Deduction("high_concentration", 20) >>
              ELSE IF Gt(concentration, 6, 10)
                  THEN << Deduction("moderate_concentration", 10) >>
              ELSE << >>
        d2 == IF Lt(stablecoin_ratio, 5, 100)
                  THEN << Deduction("very_low_stablecoin_buffer", 10) >>
              ELSE IF Lt(stablecoin_ratio, 10, 100)
                  THEN << Deduction("low_stablecoin_buffer", 5) >>
              ELSE << >>
        d3 == IF counterparty_count = 0
                  THEN << Deduction("inactive_or_new_wallet", 10) >>
              ELSE IF counterparty_count < 3
                  THEN << Deduction("low_counterparty_diversity", 5) >>
              ELSE << >>
        d4 == [i \in 1..Len(suspicious_patterns) |->
                  Deduction(suspicious_patterns[i].type,
                            pattern_penalty(suspicious_patterns[i]))]
        deductions == d1 \o d2 \o d3 \o d4
        RECURSIVE sub(_, _)
        sub(score, ds) == IF ds = << >> THEN score
                          ELSE sub(score - Head(ds).penalty, Tail(ds))
    IN  [score |-> sub(100, deductions), deductions |-> deductions]

\* Variant: the score is returned as accumulated, without the clamp.
compute_trust_score_noclamp(concentration, stablecoin_ratio, counterparty_count, suspicious_patterns) ==
    compute_trust_score_unclamped(concentration, stablecoin_ratio,
                                  counterparty_count, suspicious_patterns)

compute_trust_score(concentration, stablecoin_ratio, counterparty_count, suspicious_patterns) ==
    LET r == compute_trust_score_unclamped(concentration, stablecoin_ratio,
                                           counterparty_count,
                                           suspicious_patterns)
    IN  [score |-> Clamp(0, 100, r.score), deductions |-> r.deductions]

\* RiskLevel.from_score(score, "trust").value
from_score(score) ==
    IF score >= 90 THEN "clean"
    ELSE IF score >= 70 THEN "low"
    ELSE IF score >= 50 THEN "medium"
    ELSE IF score >= 30 THEN "high"
    ELSE "critical"

get_risk_level_from_trust_score(score) == from_score(score)

\* graph_orchestrator.compute_risk_score delegates.
compute_risk_score(concentration, stablecoin_ratio, counterparty_count, suspicious_patterns) ==
    compute_trust_score(concentration, stablecoin_ratio,
                        counterparty_count, suspicious_patterns)

\* The scoring body of WalletValidityScoreTool.call.  It is written out again
\* in the tool (starting from 100.0) and has no loop over suspicious
\* patterns; the risk flags of the summary are appended with penalty 0.
\* (The tool's module imports _compute_concentration, _stablecoin_ratio and
\* _extract_counterparties from get_wallet_summary, which defines none of
\* them; the body is modelled on the metrics those names stand for.)
summary_risk_flags(concentration, stable_ratio, counterparty_count) ==
    (IF Gt(concentration, 8, 10) THEN << "high_concentration" >> ELSE << >>)
    \o (IF Lt(stable_ratio, 1, 10) THEN << "low_stablecoin_buffer" >>
        ELSE << >>)
    \o (IF counterparty_count = 0 THEN << "inactive_or_new_wallet" >>
        ELSE << >>)

WalletValidityScoreTool_call(concentration, stable_ratio, counterparty_count) ==
    LET d1 == IF Gt(concentration, 8, 10)
                  THEN << Deduction("high_concentration", 20) >>
              ELSE IF Gt(concentration, 6, 10)
                  THEN << Deduction("moderate_concentration", 10) >>
              ELSE << >>
        d2 == IF Lt(stable_ratio, 5, 100)
                  THEN << Deduction("very_low_stablecoin_buffer", 10) >>
              ELSE IF Lt(stable_ratio, 10, 100)
                  THEN << Deduction("low_stablecoin_buffer", 5) >>
              ELSE << >>
        d3 == IF counterparty_count = 0
                  THEN << Deduction("inactive_or_new_wallet", 10) >>
              ELSE IF counterparty_count < 3
                  THEN << Deduction("low_counterparty_diversity", 5) >>
              ELSE << >>
        flags == summary_risk_flags(concentration, stable_ratio,
                                    counterparty_count)
        d4 == [i \in 1..Len(flags) |-> Deduction(flags[i], 0)]
        scored == d1 \o d2 \o d3
        RECURSIVE sub(_, _)
        sub(score, ds) == IF ds = << >> THEN score
                          ELSE sub(score - Head(ds).penalty, Tail(ds))
    IN  [score |-> Clamp(0, 100, sub(100, scored)),
         deductions |-> scored \o d4]

\* The risk level of PortfolioAnalyzer.analyze_portfolio.
portfolio_risk_level(weighted_risk) ==
    IF weighted_risk >= 90 THEN "clean"
    ELSE IF weighted_risk >= 70 THEN "low"
    ELSE IF weighted_risk >= 50 THEN "moderate"
    ELSE IF weighted_risk >= 30 THEN "high"
    ELSE "critical"

(***************************************************************************)
(* SpecScore: a scoring call is made on metrics drawn from bounded sets;   *)
(* each consumer of the score is one action, and out holds what it         *)
(* returned.                                                               *)
(***************************************************************************)
ConcentrationChoices ==
    { Frac(1, 2), Frac(3, 5), Frac(7, 10), Frac(4, 5), Frac(9, 10) }
StablecoinChoices ==
    { Frac(1, 50), Frac(1, 20), Frac(2, 25), Frac(1, 10), Frac(1, 5) }
CountChoices == 0..3
PatternLevels == { "low", "medium", "high", "critical", NoneVal }
PatternChoices ==
    { [type |-> "suspicious_pattern", level |-> l] : l \in PatternLevels }
PatternLists ==
    UNION { [1..n -> PatternChoices] : n \in 0..MaxPatterns }

InitScore ==
    /\ InitGraph /\ hashOrder = GenericSeq \o CanonSeq /\ InitCache
    /\ walletIn = NoWallet
    /\ out = NoOut
    /\ \E c \in ConcentrationChoices, s \in StablecoinChoices,
          n \in CountChoices, ps \in PatternLists :
          metricsIn = [concentration |-> c, stablecoin_ratio |-> s,
                       counterparty_count |-> n, suspicious_patterns |-> ps]

Canonical(m) ==
    compute_trust_score(m.concentration, m.stablecoin_ratio,
                        m.counterparty_count, m.suspicious_patterns)

\* ComputeRiskScoreTool.call / execute
ComputeRiskScoreToolCall ==
    /\ LET r == compute_risk_score(metricsIn.concentration,
                                   metricsIn.stablecoin_ratio,
                                   metricsIn.counterparty_count,
                                   metricsIn.suspicious_patterns)
       IN  out' = [by |-> "ComputeRiskScoreTool", score |-> r.score,
                   deductions |-> r.deductions, level |-> NoneVal]
    /\ UNCHANGED <<graphVars, cacheVars, metricsIn, walletIn>>

\* The risk_score node (calc_risk) followed by the final_report node
\* (generate_report) of build_graph.
GraphScore ==
    /\ LET r == compute_risk_score(metricsIn.concentration,
                                   metricsIn.stablecoin_ratio,
                                   metricsIn.counterparty_count,
                                   metricsIn.suspicious_patterns)
       IN  out' = [by |-> "graph", score |-> r.score,
                   deductions |-> r.deductions,
                   level |-> get_risk_level_from_trust_score(r.score)]
    /\ UNCHANGED <<graphVars, cacheVars, metricsIn, walletIn>>

\* The scoring of the sequential fallback of analyze_wallet.
SequentialScore ==
    /\ LET r == compute_risk_score(metricsIn.concentration,
                                   metricsIn.stablecoin_ratio,
                                   metricsIn.counterparty_count,
                                   metricsIn.suspicious_patterns)
       IN  out' = [by |-> "sequential", score |-> r.score,
                   deductions |-> r.deductions,
                   level |-> get_risk_level_from_trust_score(r.score)]
    /\ UNCHANGED <<graphVars, cacheVars, metricsIn, walletIn>>

\* WalletValidityScoreTool.call on a wallet with these metrics.
WalletValidityScore ==
    /\ LET r == WalletValidityScoreTool_call(metricsIn.concentration,
                                             metricsIn.stablecoin_ratio,
                                             metricsIn.counterparty_count)
       IN  out' = [by |-> "WalletValidityScoreTool", score |-> r.score,
                   deductions |-> r.deductions, level |-> NoneVal]
    /\ UNCHANGED <<graphVars, cacheVars, metricsIn, walletIn>>

\* analyze_portfolio over one wallet of weight 1 whose analysis carries the
\* risk_score of the graph: weighted_risk = score * 1 / 1.
PortfolioScore ==
    /\ LET r == compute_risk_score(metricsIn.concentration,
                                   metricsIn.stablecoin_ratio,
                                   metricsIn.counterparty_count,
                                   metricsIn.suspicious_patterns)
       IN  out' = [by |-> "portfolio", score |-> r.score,
                   deductions |-> r.deductions,
                   level |-> portfolio_risk_level(r.score)]
    /\ UNCHANGED <<graphVars, cacheVars, metricsIn, walletIn>>

NextScore ==
    \/ ComputeRiskScoreToolCall
    \/ GraphScore
    \/ SequentialScore
    \/ WalletValidityScore
    \/ PortfolioScore

SpecScore == InitScore /\ [][NextScore]_vars

\* C16: a score returned by compute_trust_score (through ComputeRiskScoreTool)
\* is 100 minus 20 / 10 for concentration above 0.8 / 0.6, minus 10 / 5 for a
\* stablecoin ratio below 0.05 / 0.1, minus 10 / 5 for 0 / fewer than 3
\* counterparties, minus 5 / 10 / 20 / 30 for each pattern of severity low /
\* medium / high / critical, clamped to 0..100; on (0.9, 0.02, 0, []) it is 60.
ConcentrationTerm(c) ==
    IF Gt(c, 8, 10) THEN 20 ELSE IF Gt(c, 6, 10) THEN 10 ELSE 0
StablecoinTerm(s) ==
    IF Lt(s, 5, 100) THEN 10 ELSE IF Lt(s, 10, 100) THEN 5 ELSE 0
CountTerm(n) == IF n = 0 THEN 10 ELSE IF n < 3 THEN 5 ELSE 0
SeverityTerm(l) ==
    CASE l = "low" -> 5 [] l = "medium" -> 10 [] l = "high" -> 20
      [] l = "critical" -> 30 [] OTHER -> 5
RECURSIVE PatternTerms(_)
PatternTerms(ps) ==
    IF ps = << >> THEN 0 ELSE SeverityTerm(Head(ps).level) + PatternTerms(Tail(ps))
StatedScore(m) ==
    Clamp(0, 100, 100 - ConcentrationTerm(m.concentration)
                      - StablecoinTerm(m.stablecoin_ratio)
                      - CountTerm(m.counterparty_count)
                      - PatternTerms(m.suspicious_patterns))
ExampleMetrics ==
    [concentration |-> Frac(9, 10), stablecoin_ratio |-> Frac(1, 50),
     counterparty_count |-> 0, suspicious_patterns |-> << >>]
C16_TrustScoreFormula ==
    out.by = "ComputeRiskScoreTool" =>
        /\ out.score = StatedScore(metricsIn)
        /\ out.score \in 0..100
        /\ metricsIn = ExampleMetrics => out.score = 60
\* The example has been scored.
C16_Witness ==
    /\ out.by = "ComputeRiskScoreTool"
    /\ metricsIn = ExampleMetrics
    /\ out.score = 60
    /\ Len(out.deductions) = 3

\* C17: the risk level reported for a trust score s is "clean" for s >= 90,
\* "low" for 70 <= s < 90, "moderate" for 50 <= s < 70, "high" for
\* 30 <= s < 50 and "critical" for s < 30; a score of 60 is reported as
\* "moderate".
StatedLevel(s) ==
    IF s >= 90 THEN "clean"
    ELSE IF s >= 70 THEN "low"
    ELSE IF s >= 50 THEN "moderate"
    ELSE IF s >= 30 THEN "high"
    ELSE "critical"
C17_LevelThresholds ==
    out.by \in { "graph", "sequential" } => out.level = StatedLevel(out.score)

\* C19: every consumer that produces a wallet score or a risk level (the
\* graph's risk_score node, the sequential fallback, ComputeRiskScoreTool,
\* WalletValidityScoreTool, the portfolio risk level) returns, for the same
\* concentration, stablecoin ratio, counterparty count and suspicious
\* patterns, the score of compute_trust_score and the level of
\* get_risk_level_from_trust_score.
Consumers ==
    { "graph", "sequential", "ComputeRiskScoreTool",
      "WalletValidityScoreTool", "portfolio" }
C19_SingleSourceOfTruth ==
    out.by \in Consumers =>
        /\ out.score = Canonical(metricsIn).score
        /\ out.level # NoneVal =>
               out.level =
                   get_risk_level_from_trust_score(Canonical(metricsIn).score)

(***************************************************************************)
(* The analysis functions of graph_orchestrator.py on balances and         *)
(* transfers.  A balance is [symbol, amount] with the amount in halves of  *)
(* a token; a transfer is a record of the keys the code reads, NoneVal for *)
(* an absent key.                                                          *)
(***************************************************************************)
\* (b.get("symbol") or "").upper()
Upper(symbol) ==
    CASE symbol = "bUsd" -> "BUSD"
      [] symbol = NoneVal -> ""
      [] OTHER -> symbol
\* tag in s, for the upper-cased symbols of the model
Contains(s, tag) ==
    CASE s = "USDT" -> tag \in { "USD", "USDT" }
      [] s = "BUSD" -> tag = "USD"
      [] OTHER -> FALSE
StableTags == { "USD", "USDT", "USDC", "DAI", "FDUSD" }

RECURSIVE SumAmounts(_)
SumAmounts(balances) ==
    IF balances = << >> THEN 0
    ELSE Head(balances).amount + SumAmounts(Tail(balances))
RECURSIVE MaxAmount(_)
MaxAmount(balances) ==
    IF balances = << >> THEN 0
    ELSE LET m == MaxAmount(Tail(balances))
         IN  IF Head(balances).amount > m THEN Head(balances).amount ELSE m
RECURSIVE MinAmount(_)
MinAmount(balances) ==
    IF Len(balances) = 1 THEN Head(balances).amount
    ELSE LET m == MinAmount(Tail(balances))
         IN  IF Head(balances).amount < m THEN Head(balances).amount ELSE m

\* Variant: the share of the smallest balance.
compute_concentration_least(balances) ==
    LET total == SumAmounts(balances)
    IN  IF total <= 0 THEN Frac(0, 1) ELSE Frac(MinAmount(balances), total)

compute_concentration(balances) ==
    LET total == SumAmounts(balances)
    IN  IF total <= 0 THEN Frac(0, 1) ELSE Frac(MaxAmount(balances), total)

compute_stablecoin_ratio(balances) ==
    LET total == SumAmounts(balances)
        stable == SelectSeq(balances,
                      LAMBDA b : \E tag \in StableTags :
                                     Contains(Upper(b.symbol), tag))
    IN  IF total <= 0 THEN Frac(0, 1) ELSE Frac(SumAmounts(stable), total)

\* Python truthiness of the value of an address key
Truthy(v) == v \notin { NoneVal, "" }
\* tx.get("transferaddress") or tx.get("to") or tx.get("from")
tx_addr(tx) ==
    IF Truthy(tx.transferaddress) THEN tx.transferaddress
    ELSE IF Truthy(tx.to) THEN tx.to
    ELSE tx.from

\* Variant: only the sent transfers are read.
extract_counterparties_sent(transfers) ==
    { tx_addr(transfers.sent[i]) : i \in
        { j \in 1..Len(transfers.sent) : Truthy(tx_addr(transfers.sent[j])) } }

extract_counterparties(transfers) ==
    LET all == transfers.sent \o transfers.received
    IN  { tx_addr(all[i]) : i \in { j \in 1..Len(all) : Truthy(tx_addr(all[j])) } }

\* detect_suspicious_patterns: ten transfers within 300 s of each other in
\* timestamp order, then one pattern per transferaddress seen more than 20
\* times, in the order the addresses first appear.
RECURSIVE FirstSeen(_, _)
FirstSeen(txs, seen) ==
    IF txs = << >> THEN << >>
    ELSE LET a == IF Head(txs).transferaddress = NoneVal THEN ""
                  ELSE Head(txs).transferaddress
         IN  IF a = "" \/ a \in seen THEN FirstSeen(Tail(txs), seen)
             ELSE << a >> \o FirstSeen(Tail(txs), seen \cup { a })
\* Variant: the windows are taken from the transfers as listed, unsorted.
detect_suspicious_patterns_unsorted(transfers) ==
    LET all_txs == transfers.sent \o transfers.received
        rapid == /\ Len(all_txs) >= 10
                 /\ \E i \in 1..(Len(all_txs) - 9) :
                        all_txs[i + 9].timestamp - all_txs[i].timestamp <= 300
        count(a) == Cardinality({ i \in 1..Len(all_txs) :
                                      all_txs[i].transferaddress = a })
        busy == SelectSeq(FirstSeen(all_txs, {}), LAMBDA a : count(a) > 20)
    IN  (IF rapid THEN << [type |-> "rapid_transactions",
                          level |-> "medium"] >>
         ELSE << >>)
        \o [i \in 1..Len(busy) |->
               [type |-> "concentrated_activity", level |-> "medium",
                counterparty |-> busy[i], count |-> count(busy[i])]]

detect_suspicious_patterns(transfers) ==
    LET all_txs == transfers.sent \o transfers.received
        sorted_txs == SortSeq(all_txs,
                          LAMBDA x, y : x.timestamp < y.timestamp)
        rapid == /\ Len(all_txs) >= 10
                 /\ \E i \in 1..(Len(sorted_txs) - 9) :
                        sorted_txs[i + 9].timestamp
                            - sorted_txs[i].timestamp <= 300
        count(a) == Cardinality({ i \in 1..Len(all_txs) :
                                      all_txs[i].transferaddress = a })
        busy == SelectSeq(FirstSeen(all_txs, {}), LAMBDA a : count(a) > 20)
    IN  (IF rapid THEN << [type |-> "rapid_transactions",
                          level |-> "medium"] >>
         ELSE << >>)
        \o [i \in 1..Len(busy) |->
               [type |-> "concentrated_activity", level |-> "medium",
                counterparty |-> busy[i], count |-> count(busy[i])]]

\* The fixture of _mock_neo_summary.
Tx(ta, to, from, ts) ==
    [transferaddress |-> ta, to |-> to, from |-> from, timestamp |-> ts]
mock_balances ==
    << [symbol |-> "GAS", amount |-> 241], [symbol |-> "NEO", amount |-> 100],
       [symbol |-> "USDT", amount |-> 30] >>
mock_transfers ==
    [sent |-> << Tx(NoneVal, "NRiskCounterparty1", NoneVal, 1710000000),
                 Tx(NoneVal, "NTrustedDex", NoneVal, 1711000000) >>,
     received |-> << Tx(NoneVal, NoneVal, "NTrustedDex", 1710500000) >>]

(***************************************************************************)
(* SpecWallet: an analysis is run on balances and transfers drawn from     *)
(* bounded sets (the fixture of _mock_neo_summary among them); out holds   *)
(* the report.                                                             *)
(***************************************************************************)
\* Bounds: the longest balance list and the longest sent / received list.
MaxBalances == 3
MaxTransfers == 2

BalanceChoices ==
    { [symbol |-> "GAS", amount |-> 241], [symbol |-> "NEO", amount |-> 100],
      [symbol |-> "USDT", amount |-> 30], [symbol |-> "bUsd", amount |-> 10] }
SentChoices ==
    { Tx(NoneVal, "NRiskCounterparty1", NoneVal, 1710000000),
      Tx(NoneVal, "NTrustedDex", NoneVal, 1711000000),
      Tx("NTrustedDex", NoneVal, NoneVal, 1710000100),
      Tx("", NoneVal, NoneVal, 0) }
ReceivedChoices ==
    { Tx(NoneVal, NoneVal, "NTrustedDex", 1710500000),
      Tx(NoneVal, NoneVal, "NOther", 1710500200),
      Tx("NRiskCounterparty1", NoneVal, NoneVal, 1710500100),
      Tx("", NoneVal, NoneVal, 0) }
SeqsUpTo(S, n) == UNION { [1..k -> S] : k \in 0..n }

\* Ten transfers within 270 s, and 21 transfers with one address 1000 s apart.
BurstWallet ==
    [balances |-> mock_balances,
     sent |-> [i \in 1..10 |->
                  Tx("NTrustedDex", NoneVal, NoneVal, 1710000000 + 30 * i)],
     received |-> << >>]
BusyWallet ==
    [balances |-> mock_balances,
     sent |-> [i \in 1..21 |->
                  Tx("NTrustedDex", NoneVal, NoneVal, 1710000000 + 1000 * i)],
     received |-> << >>]

\* Ten transfers spanning exactly 300 s and exactly 301 s; eleven transfers
\* of which the last ten, listed out of time order on both sides, span 300 s;
\* ten transfers 1000 s apart, the later five listed first.
EdgeWallet ==
    [balances |-> mock_balances,
     sent |-> [i \in 1..10 |->
                  Tx("NTrustedDex", NoneVal, NoneVal,
                     IF i = 10 THEN 1710000300 ELSE 1710000000 + 30 * (i - 1))],
     received |-> << >>]
SlowWallet ==
    [balances |-> mock_balances,
     sent |-> [i \in 1..10 |->
                  Tx("NTrustedDex", NoneVal, NoneVal,
                     IF i = 10 THEN 1710000301 ELSE 1710000000 + 30 * (i - 1))],
     received |-> << >>]
ShuffledWallet ==
    [balances |-> mock_balances,
     sent |-> [i \in 1..6 |->
                  Tx(NoneVal, "NTrustedDex", NoneVal,
                     IF i = 3 THEN 1700000000 ELSE 1710000300 - 60 * (i - 1))],
     received |-> [i \in 1..5 |->
                      Tx(NoneVal, NoneVal, "NOther", 1710000030 + 50 * (i - 1))]]
MixedWallet ==
    [balances |-> mock_balances,
     sent |-> [i \in 1..5 |->
                  Tx(NoneVal, "NTrustedDex", NoneVal, 1711000000 + 1000 * i)],
     received |-> [i \in 1..5 |->
                      Tx(NoneVal, NoneVal, "NOther", 1710000000 + 1000 * i)]]
\* 21 transfers with one recipient named by "to"; 20 transfers with one
\* transferaddress; 11 sent and 10 received with one transferaddress.
ToWallet ==
    [balances |-> mock_balances,
     sent |-> [i \in 1..21 |->
                  Tx(NoneVal, "NTrustedDex", NoneVal, 1710000000 + 1000 * i)],
     received |-> << >>]
TwentyWallet ==
    [balances |-> mock_balances,
     sent |-> [i \in 1..20 |->
                  Tx("NTrustedDex", NoneVal, NoneVal, 1710000000 + 1000 * i)],
     received |-> << >>]
BothSidesWallet ==
    [balances |-> mock_balances,
     sent |-> [i \in 1..11 |->
                  Tx("NTrustedDex", NoneVal, NoneVal, 1710000000 + 1000 * i)],
     received |-> [i \in 1..10 |->
                      Tx("NTrustedDex", NoneVal, NoneVal, 1710000500 + 1000 * i)]
                      \o << Tx(NoneVal, NoneVal, "NOther", 1710900000) >>]
SpecialWallets ==
    { BurstWallet, BusyWallet, EdgeWallet, SlowWallet, ShuffledWallet,
      MixedWallet, ToWallet, TwentyWallet, BothSidesWallet }

Wallets ==
    [balances : SeqsUpTo(BalanceChoices, MaxBalances),
     sent : SeqsUpTo(SentChoices, MaxTransfers),
     received : SeqsUpTo(ReceivedChoices, MaxTransfers)]
        \cup SpecialWallets

InitWallet ==
    /\ InitGraph /\ hashOrder = GenericSeq \o CanonSeq /\ InitCache
    /\ metricsIn = NoMetrics
    /\ out = NoOut
    /\ walletIn \in Wallets

Transfers(w) == [sent |-> w.sent, received |-> w.received]

\* The compute functions of build_graph, on the results deps of their
\* dependencies.  metric_nodes is the batch of calc_concentration,
\* calc_stablecoin, calc_counterparties and calc_suspicious: each reads
\* deps["fetch_data"].data and gives the result of its node.
metric_nodes(deps) ==
    LET data == deps["fetch_data"].data
    IN  [concentration |->
             ComputationResult("concentration", COMPLETED, compute_concentration(data.balances), NoErr, {"fetch_data"}),
         stablecoin_ratio |->
             ComputationResult("stablecoin_ratio", COMPLETED, compute_stablecoin_ratio(data.balances), NoErr, {"fetch_data"}),
         counterparties |->
             ComputationResult("counterparties", COMPLETED, extract_counterparties(data.transfers), NoErr, {"fetch_data"}),
         suspicious_patterns |->
             ComputationResult("suspicious_patterns", COMPLETED, detect_suspicious_patterns(data.transfers), NoErr, {"fetch_data"})]

\* Variant: concentration and stablecoin ratio change places.
calc_risk_swapped(deps) ==
    compute_risk_score(deps["stablecoin_ratio"].data,
                       deps["concentration"].data,
                       Cardinality(deps["counterparties"].data),
                       deps["suspicious_patterns"].data)

calc_risk(deps) ==
    compute_risk_score(deps["concentration"].data,
                       deps["stablecoin_ratio"].data,
                       Cardinality(deps["counterparties"].data),
                       deps["suspicious_patterns"].data)

\* The report of generate_report, as far as the analysis goes (score,
\* deductions == deps["risk_score"].data).
generate_report(deps) ==
    [by |-> "graph",
     concentration |-> deps["concentration"].data,
     stablecoin_ratio |-> deps["stablecoin_ratio"].data,
     counterparties |-> deps["counterparties"].data,
     counterparty_count |-> Cardinality(deps["counterparties"].data),
     suspicious_patterns |-> deps["suspicious_patterns"].data,
     score |-> deps["risk_score"].data.score,
     level |-> get_risk_level_from_trust_score(deps["risk_score"].data.score),
     deductions |-> deps["risk_score"].data.deductions]

\* The batches of the graph of build_graph after fetch_data: the four metric
\* nodes, risk_score, final_report, each on the results recorded before it.
GraphAnalysis ==
    /\ LET dep_results_of(n, res) ==
               [d \in build_graph[n].dependencies |-> res[d]]
           fetched == [fetch_data |->
                          ComputationResult("fetch_data", COMPLETED,
                                    [balances |-> walletIn.balances,
                                     transfers |-> Transfers(walletIn)],
                                    NoErr, {})]
           metrics == fetched @@ metric_nodes(dep_results_of("concentration", fetched))
           scored == metrics @@
                     [risk_score |->
                          ComputationResult("risk_score", COMPLETED,
                                    calc_risk(dep_results_of("risk_score", metrics)),
                                    NoErr, build_graph["risk_score"].dependencies)]
       IN  out' = generate_report(dep_results_of("final_report", scored))
    /\ UNCHANGED <<graphVars, cacheVars, metricsIn, walletIn>>

\* The sequential fallback of analyze_wallet, on the data of
\* get_full_wallet_data.
SequentialAnalysis ==
    /\ LET concentration == compute_concentration(walletIn.balances)
           stablecoin == compute_stablecoin_ratio(walletIn.balances)
           counterparties == extract_counterparties(Transfers(walletIn))
           patterns == detect_suspicious_patterns(Transfers(walletIn))
           r == compute_risk_score(concentration, stablecoin,
                                   Cardinality(counterparties), patterns)
       IN  out' = [by |-> "sequential",
                   concentration |-> concentration,
                   stablecoin_ratio |-> stablecoin,
                   counterparties |-> counterparties,
                   counterparty_count |-> Cardinality(counterparties),
                   suspicious_patterns |-> patterns,
                   score |-> r.score,
                   level |-> get_risk_level_from_trust_score(r.score),
                   deductions |-> r.deductions]
    /\ UNCHANGED <<graphVars, cacheVars, metricsIn, walletIn>>

NextWallet == GraphAnalysis \/ SequentialAnalysis

SpecWallet == InitWallet /\ [][NextWallet]_vars

\* C18: for balances GAS 120.5, NEO 50, USDT 15 and transfers sent to X and
\* to Y, received from Y, the analysis yields concentration 120.5/185.5,
\* stablecoin ratio 15/185.5, 2 counterparties, a trust score of 85 with
\* exactly the deductions for low stablecoin buffer and low counterparty
\* diversity, and the risk level "low".
MockWallet ==
    [balances |-> mock_balances, sent |-> mock_transfers.sent,
     received |-> mock_transfers.received]
SameFrac(f, g) == f.num * g.den = g.num * f.den
Analysed == out.by \in { "graph", "sequential" }
Reasons(ds) == { ds[i].reason : i \in 1..Len(ds) }
MockMetrics ==
    /\ SameFrac(out.concentration, Frac(1205, 1855))
    /\ SameFrac(out.stablecoin_ratio, Frac(150, 1855))
    /\ out.counterparty_count = 2
    /\ out.counterparties = { "NRiskCounterparty1", "NTrustedDex" }
C18_EndToEnd85 ==
    (Analysed /\ walletIn = MockWallet) =>
        /\ MockMetrics
        /\ out.score = 85
        /\ Len(out.deductions) = 2
        /\ Reasons(out.deductions) =
               { "low_stablecoin_buffer", "low_counterparty_diversity" }
        /\ out.level = "low"
\* C18, as the code has it: the concentration 120.5/185.5 is above 0.6, so
\* the score is 100 - 10 - 5 - 5 = 80 with the three deductions
\* moderate_concentration (10), low_stablecoin_buffer (5) and
\* low_counterparty_diversity (5); the level is "low".
C18_EndToEnd80 ==
    (Analysed /\ walletIn = MockWallet) =>
        /\ MockMetrics
        /\ out.score = 80
        /\ out.deductions =
               << Deduction("moderate_concentration", 10),
                  Deduction("low_stablecoin_buffer", 5),
                  Deduction("low_counterparty_diversity", 5) >>
        /\ out.suspicious_patterns = << >>
        /\ out.level = "low"
C18_Witness ==
    /\ out.by = "sequential"
    /\ walletIn = MockWallet
    /\ out.score = 80
    /\ out.level = "low"

\* C20: extract_counterparties returns the set of the distinct other-party
\* addresses of the sent and received transfers (the transferaddress of a
\* transfer, else the recipient of a sent and the sender of a received one);
\* the result is the same when two transfers of a list change places, when a
\* transfer is repeated, and when the extraction is applied again to the
\* same transfers.
OtherParty(tx, direction) ==
    IF Truthy(tx.transferaddress) THEN tx.transferaddress
    ELSE IF direction = "sent" THEN tx.to ELSE tx.from
OtherParties(w) ==
    ({ OtherParty(w.sent[i], "sent") : i \in 1..Len(w.sent) }
        \cup { OtherParty(w.received[i], "received") :
                   i \in 1..Len(w.received) })
    \ { NoneVal, "" }
Swap(s, i, j) ==
    [k \in 1..Len(s) |-> IF k = i THEN s[j] ELSE IF k = j THEN s[i] ELSE s[k]]
Repeat(s, i) == SubSeq(s, 1, i) \o << s[i] >> \o SubSeq(s, i + 1, Len(s))
Reordered(w) ==
    { [sent |-> Swap(w.sent, i, j), received |-> w.received] :
          i, j \in 1..Len(w.sent) }
    \cup { [sent |-> w.sent, received |-> Swap(w.received, i, j)] :
               i, j \in 1..Len(w.received) }
Repeated(w) ==
    { [sent |-> Repeat(w.sent, i), received |-> w.received] :
          i \in 1..Len(w.sent) }
    \cup { [sent |-> w.sent, received |-> Repeat(w.received, i)] :
               i \in 1..Len(w.received) }
CounterpartiesAreOtherParties ==
    Analysed =>
        /\ out.counterparties = OtherParties(walletIn)
        /\ out.counterparty_count = Cardinality(OtherParties(walletIn))
        /\ \A t \in Reordered(walletIn) \cup Repeated(walletIn) :
               extract_counterparties(t) = out.counterparties
ExtractedAgain ==
    (Analysed /\ Analysed') => out'.counterparties = out.counterparties
C20_CounterpartiesSet ==
    [](CounterpartiesAreOtherParties) /\ [][ExtractedAgain]_vars
\* Three addressed transfers in a different order of addresses, one address
\* on both sides: two counterparties.
C20_Witness ==
    /\ Analysed
    /\ Len(walletIn.sent) = 2 /\ Len(walletIn.received) = 2
    /\ tx_addr(walletIn.sent[1]) # tx_addr(walletIn.sent[2])
    /\ \A i \in 1..2 : Truthy(tx_addr(walletIn.sent[i]))
    /\ tx_addr(walletIn.received[1]) = tx_addr(walletIn.sent[2])
    /\ ~Truthy(tx_addr(walletIn.received[2]))
    /\ Cardinality(out.counterparties) = 2

\* C21: during execute no node of batch k+1 starts before every node of
\* batch k has finished and has its result recorded; so a compute function
\* is invoked only when each declared dependency of its node has a recorded
\* terminal result, and that result is what the function receives.
EarlierBatchesRecorded ==
    \A j \in 1..(batchIdx - 1) : \A m \in SeqRange(batches[j]) :
        m \in DOMAIN results /\ results[m].state \in TerminalStates
BarrierHolds ==
    phase = "exec" =>
        /\ EarlierBatchesRecorded
        /\ DOMAIN taskRes \subseteq SeqRange(batches[batchIdx])
StartsAfterDependencies ==
    \A n \in NodeSet :
        (TaskEnds(n) /\ invoked'[n] > invoked[n]) =>
            /\ EarlierBatchesRecorded
            /\ \A d \in nodes[n].dependencies :
                   /\ d \in DOMAIN results
                   /\ results[d].state \in TerminalStates
                   /\ BatchOf(d) < batchIdx
                   /\ taskRes'[n].deps[d] = results[d]
C21_BatchBarrier == [](BarrierHolds) /\ [][StartsAfterDependencies]_vars
\* A node of the third batch with two dependencies has been computed.
C21_Witness ==
    /\ phase = "exec"
    /\ batchIdx >= 3
    /\ \E n \in DOMAIN taskRes :
           /\ Cardinality(nodes[n].dependencies) >= 2
           /\ taskRes[n].res.state = COMPLETED
           /\ \A d \in nodes[n].dependencies : taskRes[n].deps[d] = results[d]

\* C22: batch k of get_parallel_batches holds exactly the nodes not in an
\* earlier batch whose whole dependency set lies in the earlier batches, so
\* the number of batches is the least possible: the number of nodes on the
\* longest dependency chain.
BatchedBefore(k) == UNION { SeqRange(batches[j]) : j \in 1..(k - 1) }
Eligible(k) ==
    { n \in NodeSet \ BatchedBefore(k) :
          nodes[n].dependencies \subseteq BatchedBefore(k) }
RECURSIVE ChainLength(_)
ChainLength(n) ==
    IF nodes[n].dependencies = {} THEN 1
    ELSE 1 + (CHOOSE m \in { ChainLength(d) : d \in nodes[n].dependencies } :
                  \A d \in nodes[n].dependencies : ChainLength(d) <= m)
LongestChain ==
    CHOOSE m \in { ChainLength(n) : n \in NodeSet } :
        \A n \in NodeSet : ChainLength(n) <= m
C22_BatchesMaximal ==
    batches # <<>> =>
        /\ \A k \in 1..Len(batches) : SeqRange(batches[k]) = Eligible(k)
        /\ Len(batches) = LongestChain
\* Three generic nodes in two batches: a batch of two nodes that wait for
\* the same node, or a node that waits for two.
C22_Witness ==
    /\ mode = "graph"
    /\ phase = "exec"
    /\ Len(batches) = 2
    /\ Cardinality(NodeSet) = 3
    /\ Len(batches[2]) = 2
    /\ LongestChain = 2

(***************************************************************************)
(* SpecLock: get_balances / get_transfers with the per-key lock written    *)
(* out.  A call stands at "waiting" (at async with, the lock taken), at    *)
(* "upstream" (it holds the lock and its NeoClient call is outstanding) or *)
(* at "done".  The NeoClient call is synchronous, so in this build no      *)
(* other task steps while it is outstanding; the steps allowed here while  *)
(* a call stands at "upstream" include that schedule.                      *)
(***************************************************************************)
\* holds nobody back
lock_locked_never(k) == FALSE

\* stays locked after a fetch that raised
lock_locked_kept(k) ==
    \E i \in DOMAIN callers :
        /\ RequestKey(callers[i]) = k
        /\ \/ callers[i].pc = "upstream"
           \/ callers[i].res = Raised /\ callers[i].ub + callers[i].ut = 1

\* asyncio.Lock.locked() of cache.get_lock for the dataset key k
lock_locked(k) ==
    \E i \in DOMAIN callers :
        callers[i].pc = "upstream" /\ RequestKey(callers[i]) = k

\* get_balances / get_transfers from its first line to the suspension at
\* async with, to the start of the upstream call, or to the return of a
\* cached value.
LockedCall(op, a, lb) ==
    /\ Cardinality(FetchCalls) < MaxCallers
    /\ op \in {"balances", "transfers"}
    /\ op = "balances" <=> lb = 0
    /\ FirstUse(a, lb)
    /\ LET k == _make_key(op, a, lb)
           first == cache_get(cache, k, DEFAULT_TTL)
           second == cache_get(first.cache, k, DEFAULT_TTL)
       IN  IF first.ret # NoneData
           THEN /\ cache' = first.cache
                /\ callers' = Append(callers, [NewCall(op, a, lb) EXCEPT
                                  !.pc = "done", !.res = Value(first.ret)])
                /\ UNCHANGED upCalls
           ELSE IF lock_locked(k)
           THEN /\ cache' = first.cache
                /\ callers' = Append(callers, [NewCall(op, a, lb) EXCEPT
                                  !.pc = "waiting", !.waited = TRUE])
                /\ UNCHANGED upCalls
           ELSE /\ cache' = second.cache
                /\ callers' = Append(callers, [NewCall(op, a, lb) EXCEPT
                                  !.pc = "upstream",
                                  !.ub = IF op = "balances" THEN 1 ELSE 0,
                                  !.ut = IF op = "transfers" THEN 1 ELSE 0])
                /\ upCalls' = [upCalls EXCEPT ![k] = @ + 1]
    /\ lastGet' = NoGet
    /\ UNCHANGED now
    /\ UNCHANGED <<graphVars, scoreVars>>

\* A waiting call gets the lock: the double check, then the return of the
\* cached value or the start of the upstream call.
LockAcquired(i) ==
    /\ i \in DOMAIN callers
    /\ callers[i].pc = "waiting"
    /\ LET k == RequestKey(callers[i])
           second == cache_get(cache, k, DEFAULT_TTL)
       IN  /\ ~lock_locked(k)
           /\ cache' = second.cache
           /\ IF second.ret # NoneData
              THEN /\ callers' = [callers EXCEPT ![i] =
                          [@ EXCEPT !.pc = "done", !.res = Value(second.ret)]]
                   /\ UNCHANGED upCalls
              ELSE /\ callers' = [callers EXCEPT ![i] =
                          [@ EXCEPT !.pc = "upstream",
                                    !.ub = IF callers[i].op = "balances" THEN 1 ELSE 0,
                                    !.ut = IF callers[i].op = "transfers" THEN 1 ELSE 0]]
                   /\ upCalls' = [upCalls EXCEPT ![k] = @ + 1]
    /\ lastGet' = NoGet
    /\ UNCHANGED now
    /\ UNCHANGED <<graphVars, scoreVars>>

\* The upstream call of a call returns or raises: the value is stored and
\* returned, or the exception propagates; the lock is released.
UpstreamReturns(i, up) ==
    /\ i \in DOMAIN callers
    /\ callers[i].pc = "upstream"
    /\ up \in IF callers[i].op = "balances"
              THEN BalancesUpstream(callers[i].address)
              ELSE TransfersUpstream(callers[i].address)
    /\ LET k == RequestKey(callers[i])
           data == IF up.kind = "null" THEN NoneData
                   ELSE UpstreamData(upCalls[k], up.mentions)
       IN  IF up.kind = "err"
           THEN /\ callers' = [callers EXCEPT ![i] =
                       [@ EXCEPT !.pc = "done", !.res = Raised]]
                /\ UNCHANGED cache
           ELSE /\ cache' = cache_set(cache, k, data)
                /\ callers' = [callers EXCEPT ![i] =
                       [@ EXCEPT !.pc = "done", !.res = Value(data)]]
    /\ lastGet' = NoGet
    /\ UNCHANGED <<now, upCalls>>
    /\ UNCHANGED <<graphVars, scoreVars>>

NextLock ==
    \/ \E op \in {"balances", "transfers"}, a \in Addresses,
          lb \in Lookbacks \cup {0} : LockedCall(op, a, lb)
    \/ \E i \in 1..MaxCallers : LockAcquired(i)
    \/ \E i \in 1..MaxCallers :
          \E up \in BalancesUpstream("A1") \cup TransfersUpstream("A1")
                      \cup TransfersUpstream("A2") :
              UpstreamReturns(i, up)
    \/ Tick

SpecLock == InitIdle /\ [][NextLock]_vars

\* C23: at every moment at most one upstream fetch is outstanding for a
\* cache key: while the upstream call of one caller for a key has not
\* finished, no other caller starts an upstream call for that key.
InFlight(k) ==
    { i \in DOMAIN callers :
          callers[i].pc = "upstream" /\ RequestKey(callers[i]) = k }
StartsUpstream(i) ==
    /\ i \in DOMAIN callers'
    /\ callers'[i].pc = "upstream"
    /\ i \in DOMAIN callers => callers[i].pc # "upstream"
NoSecondStart ==
    \A i \in 1..MaxCallers :
        StartsUpstream(i) => InFlight(RequestKey(callers'[i])) = {}
C23_OneUpstreamFetchPerKey ==
    [](\A k \in DatasetKeys : Cardinality(InFlight(k)) <= 1)
        /\ [][NoSecondStart]_vars
\* One call is at its upstream call while another call for the same key
\* waits for the lock.
C23_Witness ==
    \E i, j \in DOMAIN callers :
        /\ callers[i].pc = "upstream"
        /\ callers[j].pc = "waiting"
        /\ RequestKey(callers[i]) = RequestKey(callers[j])

\* C24: in one execute of a valid graph each node's compute function is
\* invoked at most once, exactly one ComputationResult is produced for
\* every node of the graph, and a recorded result is not replaced or
\* modified for the rest of the execution.
OneResultEach ==
    /\ \A n \in Ids : invoked[n] <= 1
    /\ \A n \in DOMAIN taskRes : n \notin DOMAIN results
    /\ phase = "returned" => DOMAIN results = NodeSet
    /\ \A n \in DOMAIN results : results[n].node_id = n
ResultsKept ==
    /\ \A n \in DOMAIN results :
           n \in DOMAIN results' /\ results'[n] = results[n]
    /\ \A n \in DOMAIN taskRes :
           n \in DOMAIN taskRes' => taskRes'[n] = taskRes[n]
C24_OneResultPerNode == [](OneResultEach) /\ [][ResultsKept]_vars
\* An execution of three nodes has returned with one result for each: one
\* failed, one skipped, one completed.
C24_Witness ==
    /\ phase = "returned"
    /\ Cardinality(NodeSet) = 3
    /\ DOMAIN results = NodeSet
    /\ \A st \in TerminalStates : \E n \in NodeSet : results[n].state = st
    /\ \A n \in NodeSet : invoked[n] = (IF results[n].state = SKIPPED THEN 0 ELSE 1)

\* C25: within an execution every node's state follows Pending, then
\* Running, then exactly one terminal state (Completed, Failed or Skipped);
\* no other transition occurs, no node leaves a terminal state and no node
\* enters Running a second time.
NodeStateFollowsExecution ==
    \A n \in NodeSet :
        IF n \in DOMAIN results
            THEN nodes[n].state = results[n].state
        ELSE IF n \in DOMAIN taskRes
            THEN nodes[n].state \in {RUNNING, taskRes[n].res.state}
        ELSE nodes[n].state \in {PENDING, RUNNING}
LegalTransition ==
    \A n \in NodeSet \cap DOMAIN nodes' :
        (phase # "build" /\ nodes'[n].state # nodes[n].state) =>
            \/ nodes[n].state = PENDING /\ nodes'[n].state = RUNNING
            \/ nodes[n].state = RUNNING /\ nodes'[n].state \in TerminalStates
C25_NodeStateLifecycle ==
    [](NodeStateFollowsExecution) /\ [][LegalTransition]_vars

(***************************************************************************)
(* SpecBuild: add_node and get_parallel_batches (with the                  *)
(* _topological_sort inside it) are called on a graph in any order.  out   *)
(* keeps, of the last get_parallel_batches call, whether it returned, how  *)
(* many nodes the graph had, how long the cached order was that it found   *)
(* (-1 for none), and how many nodes the graph had at the call before that *)
(* returned (-1 for none).                                                 *)
(***************************************************************************)
GetParallelBatches ==
    /\ phase = "build"
    /\ mode = "graph"
    /\ LET topo == _topological_sort
           r == get_parallel_batches
       IN  /\ topoCache' = IF topo.ok THEN [set |-> TRUE, val |-> topo.val]
                           ELSE topoCache
           /\ out' = [by |-> "get_parallel_batches", ok |-> r.ok,
                      size |-> Cardinality(NodeSet),
                      cached |-> IF topoCache.set THEN Len(topoCache.val)
                                 ELSE -1,
                      before |-> IF out = NoOut \/ ~out.ok THEN -1
                                 ELSE out.size]
    /\ UNCHANGED <<nodes, nodeOrder, hashOrder, results, phase, mode, batches,
                   batchIdx, taskRes, invoked, ret>>
    /\ UNCHANGED <<cacheVars, metricsIn, walletIn>>

NextBuild ==
    \/ \E id \in GenericIds, deps \in DepChoices, required \in BOOLEAN :
           AddNode(id, deps, required)
    \/ GetParallelBatches

\* the set-iteration order of the generic ids, forwards or backwards
InitBuild ==
    /\ Init
    /\ hashOrder \in {GenericSeq \o CanonSeq, Reverse(GenericSeq) \o CanonSeq}

SpecBuild == InitBuild /\ [][NextBuild]_vars

\* C26: add_node invalidates the cached topological order: however add_node
\* is interleaved with _topological_sort / get_parallel_batches, a call
\* returns the order and the batches of the node set as it is at the call,
\* never those of an earlier node set.
OrderOfCurrentNodes ==
    IF ~_validate_dag THEN [ok |-> FALSE, val |-> <<>>]
    ELSE [ok |-> TRUE, val |-> dfs_order]
BatchesOfCurrentNodes ==
    IF ~_validate_dag THEN [ok |-> FALSE, val |-> <<>>]
    ELSE batch_loop(NodeSet, {}, <<>>)
C26_OrderNeverStale ==
    /\ _topological_sort = OrderOfCurrentNodes
    /\ get_parallel_batches = BatchesOfCurrentNodes
    /\ _topological_sort.ok => SeqRange(_topological_sort.val) = NodeSet
\* The batches were asked for when the graph had two nodes, a third node
\* was added, and the batches were asked for again: the call found no
\* cached order and returned the order of the three nodes.
C26_Witness ==
    /\ out.by = "get_parallel_batches"
    /\ out.ok
    /\ out.before = 2
    /\ out.size = 3
    /\ out.cached = -1
    /\ topoCache.set
    /\ Len(topoCache.val) = 3
    /\ \E n \in NodeSet : nodes[n].dependencies # {}

\* C27: the graph of WalletAnalysisGraphBuilder.build_graph is acyclic and
\* every dependency is a node of it, so execute raises neither error for
\* it, and its parallel batches are, in this order, {fetch_data},
\* {concentration, stablecoin_ratio, counterparties, suspicious_patterns},
\* {risk_score}, {final_report}.
CanonBatches ==
    << {"fetch_data"},
       {"concentration", "stablecoin_ratio", "counterparties",
        "suspicious_patterns"},
       {"risk_score"}, {"final_report"} >>
C27_CanonicalBatches ==
    mode = "analyze" =>
        /\ ValidGraph
        /\ _validate_dag
        /\ phase # "raised"
        /\ get_parallel_batches.ok
        /\ Len(get_parallel_batches.val) = 4
        /\ \A k \in 1..4 :
               /\ SeqRange(get_parallel_batches.val[k]) = CanonBatches[k]
               /\ Len(get_parallel_batches.val[k]) = Cardinality(CanonBatches[k])
        /\ phase \in {"exec", "returned"} => batches = get_parallel_batches.val
\* The canonical graph is being executed.
C27_Witness ==
    /\ mode = "analyze"
    /\ phase = "exec"
    /\ batchIdx = 4
    /\ Len(batches) = 4
    /\ batches[4] = << "final_report" >>

\* C28: an analysis reports the rapid_transactions pattern exactly when some
\* window of 10 consecutive transfers, taken from sent and received combined
\* and sorted by timestamp, spans less than 300 seconds from its first to its
\* last transfer.  (Ten consecutive transfers of the sorted list lie within a
\* span d of the first of them exactly when at least ten transfers have a
\* timestamp no earlier than that transfer's and at most d later.)
AllTxs(w) == w.sent \o w.received
WithinOf(w, i, d) ==
    { j \in 1..Len(AllTxs(w)) :
          /\ AllTxs(w)[j].timestamp >= AllTxs(w)[i].timestamp
          /\ AllTxs(w)[j].timestamp - AllTxs(w)[i].timestamp <= d }
TenWithin(w, d) ==
    \E i \in 1..Len(AllTxs(w)) : Cardinality(WithinOf(w, i, d)) >= 10
RapidReported ==
    \E k \in 1..Len(out.suspicious_patterns) :
        out.suspicious_patterns[k].type = "rapid_transactions"
C28_RapidBelow300 ==
    Analysed => (RapidReported <=> TenWithin(walletIn, 299))
\* C28, as the code has it: the pattern is reported exactly when the window
\* spans at most 300 seconds (a span of exactly 300 s is reported), and it is
\* reported once, first in the list.
C28_RapidWithin300 ==
    Analysed =>
        /\ RapidReported <=> TenWithin(walletIn, 300)
        /\ Cardinality({ k \in 1..Len(out.suspicious_patterns) :
               out.suspicious_patterns[k].type = "rapid_transactions" }) <= 1
        /\ RapidReported => out.suspicious_patterns[1].type = "rapid_transactions"
\* Eleven transfers listed out of time order on both sides, the last ten of
\* them spanning exactly 300 s: reported.
C28_Witness ==
    /\ Analysed
    /\ walletIn = ShuffledWallet
    /\ RapidReported
    /\ TenWithin(walletIn, 300) /\ ~TenWithin(walletIn, 299)

\* C29: an analysis reports a concentrated_activity pattern for a
\* counterparty exactly when that counterparty, identified as
\* extract_counterparties identifies it (transferaddress, else to, else
\* from), is the other party of more than 20 of the wallet's transfers, sent
\* and received combined.
TransfersWith(w, a) == { i \in 1..Len(AllTxs(w)) : tx_addr(AllTxs(w)[i]) = a }
ConcentratedReported(a) ==
    \E k \in 1..Len(out.suspicious_patterns) :
        /\ out.suspicious_patterns[k].type = "concentrated_activity"
        /\ out.suspicious_patterns[k].counterparty = a
C29_ConcentratedPerCounterparty ==
    Analysed =>
        \A a \in out.counterparties :
            ConcentratedReported(a) <=> Cardinality(TransfersWith(walletIn, a)) > 20
\* What the code does: only the transferaddress of a transfer is counted.
TransfersNaming(w, a) ==
    { i \in 1..Len(AllTxs(w)) : AllTxs(w)[i].transferaddress = a }
C29_ConcentratedByTransferAddress ==
    Analysed =>
        \A a \in out.counterparties :
            ConcentratedReported(a) <=> Cardinality(TransfersNaming(walletIn, a)) > 20
\* 11 sent and 10 received transfers with one transferaddress: reported.
C29_Reported ==
    /\ Analysed
    /\ walletIn = BothSidesWallet
    /\ ConcentratedReported("NTrustedDex")
\* 21 transfers to one recipient named by "to": not reported.
C29_Missed ==
    /\ Analysed
    /\ walletIn = ToWallet
    /\ out.counterparties = { "NTrustedDex" }
    /\ Cardinality(TransfersWith(walletIn, "NTrustedDex")) = 21
    /\ out.suspicious_patterns = << >>

(***************************************************************************)
(* SpecFresh: up to MaxFreshCalls calls of get_balances, get_transfers and *)
(* get_full_wallet_data for one address, with either lookback, while the   *)
(* clock moves on; the upstream client answers every call.                 *)
(***************************************************************************)
MaxFreshCalls == 3
Answers == { [kind |-> "ok", mentions |-> m] : m \in { {}, {"A1"} } }

NextFresh ==
    \/ \E op \in {"balances", "transfers"}, lb \in {0} \cup Lookbacks :
           \E up \in Answers : CallFetchUpTo(MaxFreshCalls, op, "A1", lb, up)
    \/ \E lb \in Lookbacks : CallFullUpTo(MaxFreshCalls, "A1", lb)
    \/ \E i \in 1..MaxFreshCalls, up \in Answers : SubBalances(i, up)
    \/ \E i \in 1..MaxFreshCalls, up \in Answers : SubTransfers(i, up)
    \/ \E i \in 1..MaxFreshCalls : FullFinish(i)
    \/ Tick

SpecFresh == InitIdle /\ [][NextFresh]_vars

\* C30: whenever get_full_wallet_data returns a snapshot, the balances and
\* the transfers inside it were obtained from the upstream client less than
\* the TTL (60 s) before the moment of return, whatever get_balances,
\* get_transfers and get_full_wallet_data calls were made before, with
\* whatever lookbacks.
ReturnsSnapshot(i) ==
    /\ i \in DOMAIN callers'
    /\ callers'[i].op = "full_wallet"
    /\ callers'[i].pc = "done"
    /\ callers'[i].res.status = "value"
    /\ i \in DOMAIN callers => callers[i].pc # "done"
Age(data) == now' - data.at
DatasetsFresh(snapshot) ==
    /\ Age(snapshot.balances) < DEFAULT_TTL
    /\ snapshot.transfers # NoneData => Age(snapshot.transfers) < DEFAULT_TTL
SnapshotsAreFresh ==
    \A i \in 1..MaxFreshCalls :
        ReturnsSnapshot(i) => DatasetsFresh(callers'[i].res.val)
C30_FreshEndToEnd == [][SnapshotsAreFresh]_vars
\* What does hold: a returned snapshot was built less than 60 s before the
\* return.
SnapshotsBuiltWithinTTL ==
    \A i \in 1..MaxFreshCalls :
        ReturnsSnapshot(i) => now' - callers'[i].res.val.fetched_at < DEFAULT_TTL
C30_SnapshotBuiltWithinTTL == [][SnapshotsBuiltWithinTTL]_vars
\* get_balances at 0, get_full_wallet_data at 30 (balances from the cache,
\* transfers from upstream, snapshot stored at 30), get_full_wallet_data at
\* 60: the snapshot of 30 is returned with balances obtained 60 s ago.
C30_Compounded ==
    /\ Len(callers) = 3
    /\ now = 60
    /\ callers[1].op = "balances" /\ callers[1].res.status = "value"
    /\ callers[1].res.val.at = 0
    /\ callers[2].op = "full_wallet" /\ callers[2].ub = 0 /\ callers[2].ut = 1
    /\ callers[3].op = "full_wallet" /\ callers[3].pc = "done"
    /\ callers[3].bal = Pending
    /\ callers[3].res.status = "value"
    /\ callers[3].res.val.fetched_at = 30
    /\ callers[3].res.val.transfers.at = 30
    /\ callers[3].res.val.balances.at = 0

(***************************************************************************)
(* SpecClients: get_balances and get_transfers are called on fetchers made *)
(* with different NeoClients; WalletDataCache() is the one instance of     *)
(* __new__ for all of them.                                                *)
(***************************************************************************)
MaxClientCalls == 3

NextClients ==
    \/ \E client \in Clients, op \in {"balances", "transfers"} :
           \E a \in Addresses, lb \in {0} \cup Lookbacks :
               \E up \in BalancesUpstream(a) \cup TransfersUpstream(a) :
                   CallFetchBy(client, MaxClientCalls, op, a, lb, up)
    \/ Tick

SpecClients == InitIdle /\ [][NextClients]_vars

\* C31: a fetcher made with client C only returns data that was obtained
\* from C: the data a call returns was fetched by a call on a fetcher with
\* the same client, never by a fetcher that uses another client, for the
\* same address and lookback.
ObtainedBy(j, d) ==
    /\ callers[j].ub + callers[j].ut = 1
    /\ callers[j].res = Value(d)
ReturnsData(i) ==
    /\ callers[i].pc = "done"
    /\ callers[i].res.status = "value"
    /\ callers[i].res.val.kind = "data"
C31_ClientIsolation ==
    \A i, j \in DOMAIN callers :
        (/\ ReturnsData(i)
         /\ RequestKey(callers[j]) = RequestKey(callers[i])
         /\ ObtainedBy(j, callers[i].res.val))
            => callers[j].client = callers[i].client

\* C32: invalidate(address) leaves unchanged every cache entry whose key
\* parameters do not contain that address: an entry cached for another
\* address survives, also when its payload mentions the invalidated address.
OtherAddressKept(a) ==
    \A k \in DOMAIN cache :
        k.address # a => (k \in DOMAIN cache' /\ cache'[k] = cache[k])
C32_InvalidateFrame ==
    [][ \A a \in Addresses : Invalidate(a) => OtherAddressKept(a) ]_vars
\* What does hold: an entry survives exactly when its payload does not
\* mention the address.
NotMentioningKept(a) ==
    /\ \A k \in DOMAIN cache :
           a \notin Mentions(cache[k].data) =>
               (k \in DOMAIN cache' /\ cache'[k] = cache[k])
    /\ \A k \in DOMAIN cache' : a \notin Mentions(cache[k].data)
C32_InvalidateByPayload ==
    [][ \A a \in Addresses : Invalidate(a) => NotMentioningKept(a) ]_vars
\* The transfers of one address, mentioning both, are cached.
C32_CachedMentioningOther ==
    \E k \in DOMAIN cache :
        /\ k.op = "transfers"
        /\ Mentions(cache[k].data) = Addresses

\* C33: get does not change what a later reader observes for a still-fresh
\* entry: an entry set at time s is returned by a get with ttl T at any time
\* t with t - s < T, whatever gets with other ttl values were made on the key
\* in between, and a get leaves the entries under other keys as they are.
\* (A get at time t may therefore not remove or alter an entry that is less
\* than T old for some ttl T a reader uses: the reader's get at t, or later
\* within T, is due the stored value.)
FreshForSome(k) == \E T \in TTLChoices : now - cache[k].timestamp < T
GetKeepsFresh(k) ==
    /\ FreshForSome(k) => (k \in DOMAIN cache' /\ cache'[k] = cache[k])
    /\ \A x \in DOMAIN cache \ {k} : x \in DOMAIN cache' /\ cache'[x] = cache[x]
C33_GetFrame ==
    [][ \A k \in AllKeys, ttl \in TTLChoices : CacheGet(k, ttl) => GetKeepsFresh(k) ]_vars
\* What does hold: a get removes nothing but the entry under its own key,
\* and that only when the entry is at least as old as the ttl of this get.
GetEvictsOwnStale(k, ttl) ==
    /\ now - cache[k].timestamp < ttl => cache' = cache
    /\ \A x \in DOMAIN cache \ {k} : x \in DOMAIN cache' /\ cache'[x] = cache[x]
C33_GetEvictsOwnStale ==
    [][ \A k \in AllKeys, ttl \in TTLChoices : CacheGet(k, ttl) => GetEvictsOwnStale(k, ttl) ]_vars
\* A get with the smaller ttl has just removed an entry that is fresh for
\* the larger one.
C33_EvictedWhileFresh ==
    /\ lastGet.had /\ lastGet.evicted
    /\ now = 30
    /\ \E T \in TTLChoices : now < T

(***************************************************************************)
(* SpecLockLive: SpecLock where every upstream call returns or raises and  *)
(* the event loop resumes a task that waits for a free lock.               *)
(***************************************************************************)
SpecLockLive ==
    /\ SpecLock
    /\ \A i \in 1..MaxCallers : WF_vars(LockAcquired(i))
    /\ \A i \in 1..MaxCallers :
           WF_vars(\E up \in BalancesUpstream("A1") \cup TransfersUpstream("A1") \cup TransfersUpstream("A2") : UpstreamReturns(i, up))

\* C34: no caller is blocked forever on the per-key lock: when every
\* upstream call terminates, every call of get_balances / get_transfers
\* eventually returns a value or raises; a fetch that fails while holding
\* the lock releases it, and the callers waiting on that key proceed.
HasReturned(i) ==
    /\ i \in DOMAIN callers
    /\ callers[i].pc = "done"
    /\ callers[i].res.status \in { "value", "raised" }
C34_NoCallerBlockedForever ==
    \A i \in 1..MaxCallers : (i \in DOMAIN callers) ~> HasReturned(i)
\* A call that had to wait for the lock has made its own upstream call and
\* returned, after the fetch of the call that held the lock raised.
C34_Witness ==
    \E i, j \in DOMAIN callers :
        /\ RequestKey(callers[i]) = RequestKey(callers[j])
        /\ callers[i].res = Raised /\ callers[i].ub + callers[i].ut = 1
        /\ callers[j].waited /\ callers[j].ub + callers[j].ut = 1
        /\ HasReturned(j)

\* C35: the compute function of a node is never invoked when one of its
\* direct dependencies has a Failed result and is marked required; the node
\* is recorded as Skipped with an error message that names a failed required
\* dependency of it.
FailedRequiredDeps(m) == { d \in nodes[m].dependencies : FailedRequired(d) }
SkippedNaming(r, m) ==
    /\ r.state = SKIPPED
    /\ r.data = NoneVal
    /\ \E d \in FailedRequiredDeps(m) : r.error = DepErr(d)
C35_NoInvocationAfterRequiredFailure ==
    \A m \in NodeSet :
        FailedRequiredDeps(m) # {} =>
            /\ invoked[m] = 0
            /\ m \in DOMAIN taskRes => SkippedNaming(taskRes[m].res, m)
            /\ m \in DOMAIN results => SkippedNaming(results[m], m)
\* A node with a Completed and a Failed required dependency, the Failed one
\* second in iteration order, is recorded as Skipped naming the Failed one.
C35_Witness ==
    \E m \in DOMAIN results :
        /\ Len(SetIter(nodes[m].dependencies)) = 2
        /\ HasState(SetIter(nodes[m].dependencies)[1], COMPLETED)
        /\ FailedRequired(SetIter(nodes[m].dependencies)[2])
        /\ results[m].state = SKIPPED
        /\ results[m].error = DepErr(SetIter(nodes[m].dependencies)[2])
        /\ invoked[m] = 0

\* C36: the graph path and the sequential fallback agree: on the same
\* balances and transfers, analyze_wallet(use_graph=True) and
\* analyze_wallet(use_graph=False) return the same risk_score, risk_level,
\* metrics (concentration, stablecoin_ratio, counterparty_count), deductions
\* and suspicious_patterns.
SameAnalysis(r, q) ==
    /\ r.score = q.score
    /\ r.level = q.level
    /\ r.concentration = q.concentration
    /\ r.stablecoin_ratio = q.stablecoin_ratio
    /\ r.counterparty_count = q.counterparty_count
    /\ r.deductions = q.deductions
    /\ r.suspicious_patterns = q.suspicious_patterns
OtherPathRuns == Analysed /\ Analysed' /\ out'.by # out.by /\ walletIn' = walletIn
C36_PathsAgree == [][OtherPathRuns => SameAnalysis(out, out')]_vars
\* The sequential fallback has run on ten transfers within 270 s: score 70
\* with four deductions and one pattern, as the graph reports on them.
C36_Witness ==
    /\ out.by = "sequential"
    /\ walletIn = BurstWallet
    /\ out.score = 70
    /\ Len(out.deductions) = 4
    /\ Len(out.suspicious_patterns) = 1
    /\ SameAnalysis(out, generate_report([risk_score |-> [data |-> calc_risk(metric_nodes([fetch_data |-> [data |-> [balances |-> walletIn.balances, transfers |-> Transfers(walletIn)]]]))]] @@ metric_nodes([fetch_data |-> [data |-> [balances |-> walletIn.balances, transfers |-> Transfers(walletIn)]]])))

(***************************************************************************)
(* SpecExecLive: Spec where every compute function called returns or       *)
(* raises, so that every _execute_node task of a batch ends, and gather    *)
(* resumes execute once all tasks of the batch have ended.                 *)
(***************************************************************************)
SpecExecLive ==
    /\ Spec
    /\ WF_vars(\E n \in Ids, raises \in BOOLEAN : RunNode(n, raises))
    /\ WF_vars(JoinBatch)

\* C37: get_parallel_batches terminates for every finite node set: each
\* round of its loop removes at least one node from the remaining set (or
\* raises), so there are at most as many batches as nodes, none of them
\* empty; and execute eventually returns or raises for every graph when
\* every compute function terminates: each of its steps ends a task of the
\* current batch or moves to the next batch, and there are finitely many of
\* both.
BatchLoopBounded ==
    phase \in { "exec", "returned" } =>
        /\ get_parallel_batches.ok
        /\ Len(get_parallel_batches.val) <= Cardinality(NodeSet)
        /\ \A i \in 1..Len(get_parallel_batches.val) : get_parallel_batches.val[i] # << >>
        /\ phase = "exec" => batches = get_parallel_batches.val
TasksLeft == Cardinality(SeqRange(batches[batchIdx]) \ DOMAIN taskRes)
ExecuteProgress ==
    phase = "exec" =>
        \/ phase' # "exec"
        \/ batchIdx' = batchIdx + 1 /\ batchIdx' <= Len(batches) /\ batches' = batches
        \/ batchIdx' = batchIdx /\ batches' = batches /\ TasksLeft' < TasksLeft
C37_Termination ==
    /\ [](BatchLoopBounded)
    /\ [][ExecuteProgress]_vars
    /\ (phase = "exec") ~> (phase \in { "returned", "raised" })
\* execute has returned after three batches of one node each.
C37_Witness ==
    /\ phase = "returned"
    /\ Len(batches) = 3
    /\ batchIdx = 3
    /\ Cardinality(NodeSet) = 3
    /\ DOMAIN results = NodeSet

====
